---- MODULE Spec2Model ----
(***************************************************************************)
(* A model of Koto's iterator subsystem: the iterator protocol             *)
(* (Value / ValuePair / Error / None), the lazy adaptors Chain and Each    *)
(* (runtime/src/core/iterator/adaptors.rs) and the eager operations of the *)
(* `iterator` core library module (runtime/src/core_lib/iterator.rs).      *)
(*                                                                         *)
(* Iterators are handles into a heap of cells, so that a shared handle and *)
(* an independent copy (make_copy) are different things in the model, as   *)
(* they are in the runtime.                                                *)
(***************************************************************************)
EXTENDS Integers, Sequences, FiniteSets, TLC

VARIABLES
    heap,      \* the iterator cells, addressed by handle (1..Len(heap))
    x,         \* the handle of the script variable x
    y,         \* the handle of the script variable y (0 before `y = copy x`)
    outsX,     \* every result of x.next() so far, in order (None included)
    outsY,     \* every result of y.next() so far, in order (None included)
    fnCalls,   \* every call of Each's function made through x or y: the source
               \* output it was made for and the arguments passed
    expected,  \* the outputs x produces when it is drained undisturbed
    copyAt,    \* the number of x.next() calls made before the copy was taken
    op,        \* the eager operation called last ("none" before the first)
    input,     \* the arguments of that call
    ret        \* what that call returned, pulled and invoked

vars == <<heap, x, y, outsX, outsY, fnCalls, expected, copyAt, op, input, ret>>

(***************************************************************************)
(* Bounds of the model.                                                    *)
(***************************************************************************)
MaxLen == 2        \* the longest source sequence of the adaptor machine
MaxItems == 3      \* the longest source sequence of an eager operation
MaxSkip == 4       \* the largest n given to skip

(***************************************************************************)
(* Values, errors, results and iterator outputs.                           *)
(***************************************************************************)
Null == [t |-> "Null"]
Bool(b) == [t |-> "Bool", b |-> b]
\* A number; `f` tells the float 1.0 from the integer 1, which compare equal.
Num(n, f) == [t |-> "Num", n |-> n, f |-> f]
I64(n) == Num(n, FALSE)
F64(n) == Num(n, TRUE)
Tuple(s) == [t |-> "Tuple", items |-> s]
List(s) == [t |-> "List", items |-> s]
Iterator(id) == [t |-> "Iterator", id |-> id]

RuntimeError(msg) == [msg |-> msg, prefix |-> "none"]
with_prefix(error, prefix) == [error EXCEPT !.prefix = prefix]

Ok(v) == [ok |-> TRUE, v |-> v]
Err(e) == [ok |-> FALSE, e |-> e]

None == [tag |-> "None"]
Value(v) == [tag |-> "Value", v |-> v]
ValuePair(k, v) == [tag |-> "ValuePair", k |-> k, v |-> v]
Error(e) == [tag |-> "Error", e |-> e]

collect_pair(iterator_output) ==
    IF iterator_output.tag = "ValuePair"
    THEN Value(Tuple(<<iterator_output.k, iterator_output.v>>))
    ELSE iterator_output

(***************************************************************************)
(* The VM seam: binary operators and script functions.                     *)
(***************************************************************************)
\* run_binary_op: `<`, `+` and `*` are defined on two numbers; an Object
\* overloads `<` with a function that returns Null.
run_binary_op(operator, a, b) ==
    IF a.t = "Object" /\ operator = "Less" THEN Ok(Null)
    ELSE IF a.t = "Num" /\ b.t = "Num"
    THEN CASE operator = "Less" -> Ok(Bool(a.n < b.n))
           [] operator = "Add" -> Ok(Num(a.n + b.n, a.f \/ b.f))
           [] operator = "Multiply" -> Ok(Num(a.n * b.n, a.f \/ b.f))
    ELSE Err(RuntimeError("binary_op"))

\* run_function: a script function applied to its arguments. A "script" is
\* an arbitrary (possibly impure) function, given by the result of each of
\* its calls in order; k is the number of calls made before this one.
Fn(name) == [name |-> name, results |-> <<>>]
Script(results) == [name |-> "script", results |-> results]

run_function(function, args, k) ==
    CASE function.name = "script" ->
            IF k < Len(function.results) THEN function.results[k + 1]
            ELSE Err(RuntimeError("script"))
      [] function.name = "id" -> Ok(args[1])
      [] function.name = "inc" ->
            IF args[1].t = "Num" THEN Ok(Num(args[1].n + 1, args[1].f))
            ELSE Err(RuntimeError("inc"))
      [] function.name = "add" -> run_binary_op("Add", args[1], args[2])
      [] function.name = "abs" ->
            IF args[1].t = "Num"
            THEN Ok(Num(IF args[1].n < 0 THEN -args[1].n ELSE args[1].n, args[1].f))
            ELSE Err(RuntimeError("abs"))

\* CallArgs: how the arguments reach the function.
Single(v) == <<v>>
AsTuple(a, b) == <<Tuple(<<a, b>>)>>
Separate(a, b) == <<a, b>>

(***************************************************************************)
(* The heap of iterator cells.                                             *)
(***************************************************************************)
\* polls counts the next() calls made on a base iterator; it is kept for the
\* claims and nothing reads it.
BaseCell(items) ==
    [kind |-> "base", items |-> items, pos |-> 1, polls |-> 0,
     iter_a |-> 0, iter_b |-> 0, iter |-> 0, function |-> Fn("none")]
ChainCell(iter_a, iter_b) ==
    [kind |-> "chain", items |-> <<>>, pos |-> 0, polls |-> 0,
     iter_a |-> iter_a, iter_b |-> iter_b, iter |-> 0, function |-> Fn("none")]
EachCell(iter, function) ==
    [kind |-> "each", items |-> <<>>, pos |-> 0, polls |-> 0,
     iter_a |-> 0, iter_b |-> 0, iter |-> iter, function |-> function]

\* ValueIterator::new / make_external_2: the cell gets a fresh handle.
Alloc(h, cell) == [heap |-> Append(h, cell), id |-> Len(h) + 1]

RECURSIVE IterNext(_, _)
RECURSIVE IterMakeCopy(_, _)

\* The iterator over a list, tuple or range: its items in order, then None
\* on every later call.
BaseNext(h, id) ==
    LET c == h[id] IN
    IF c.pos <= Len(c.items)
    THEN [out |-> c.items[c.pos],
          heap |-> [h EXCEPT ![id].pos = @ + 1, ![id].polls = @ + 1],
          calls |-> <<>>]
    ELSE [out |-> None, heap |-> [h EXCEPT ![id].polls = @ + 1], calls |-> <<>>]

BaseMakeCopy(h, id) == Alloc(h, [h[id] EXCEPT !.polls = 0])

(***************************************************************************)
(* Chain                                                                   *)
(***************************************************************************)
ChainNew(h, iter_a, iter_b) == Alloc(h, ChainCell(iter_a, iter_b))

\* A copy that clones the handles of the two parts instead of copying them.
ChainMakeCopyShared(h, id) == Alloc(h, ChainCell(h[id].iter_a, h[id].iter_b))

\* A copy whose second part starts again from its first item.
ChainMakeCopyRestartsSecond(h, id) ==
    LET c == h[id]
        ca == IF c.iter_a # 0 THEN IterMakeCopy(h, c.iter_a) ELSE [heap |-> h, id |-> 0]
        cb == IterMakeCopy(ca.heap, c.iter_b)
    IN Alloc([cb.heap EXCEPT ![cb.id].pos = 1], ChainCell(ca.id, cb.id))

ChainMakeCopy(h, id) ==
    LET c == h[id]
        ca == IF c.iter_a # 0 THEN IterMakeCopy(h, c.iter_a) ELSE [heap |-> h, id |-> 0]
        cb == IterMakeCopy(ca.heap, c.iter_b)
    IN Alloc(cb.heap, ChainCell(ca.id, cb.id))

\* A Chain that reports the end of its first part as its own end.
ChainNextStopsAtBoundary(h, id) ==
    LET c == h[id] IN
    IF c.iter_a # 0
    THEN LET r == IterNext(h, c.iter_a) IN
         IF r.out # None THEN r
         ELSE [out |-> None, heap |-> [r.heap EXCEPT ![id].iter_a = 0], calls |-> r.calls]
    ELSE IterNext(h, c.iter_b)

\* A Chain that takes an Error of its first part for the end of that part.
ChainNextErrorEndsFirst(h, id) ==
    LET c == h[id] IN
    IF c.iter_a # 0
    THEN LET r == IterNext(h, c.iter_a) IN
         IF r.out # None /\ r.out.tag # "Error" THEN r
         ELSE IF r.out # None
         THEN [out |-> r.out, heap |-> [r.heap EXCEPT ![id].iter_a = 0], calls |-> r.calls]
         ELSE LET r2 == IterNext([r.heap EXCEPT ![id].iter_a = 0], c.iter_b)
              IN [out |-> r2.out, heap |-> r2.heap, calls |-> r.calls \o r2.calls]
    ELSE IterNext(h, c.iter_b)

\* A Chain that keeps its first part after the part has ended, and asks it
\* again on every later call.
ChainNextKeepsFirst(h, id) ==
    LET c == h[id] IN
    IF c.iter_a # 0
    THEN LET r == IterNext(h, c.iter_a) IN
         IF r.out # None THEN r
         ELSE LET r2 == IterNext(r.heap, c.iter_b)
              IN [out |-> r2.out, heap |-> r2.heap, calls |-> r.calls \o r2.calls]
    ELSE IterNext(h, c.iter_b)

ChainNext(h, id) ==
    LET c == h[id] IN
    IF c.iter_a # 0
    THEN LET r == IterNext(h, c.iter_a) IN
         IF r.out # None THEN r
         ELSE LET r2 == IterNext([r.heap EXCEPT ![id].iter_a = 0], c.iter_b)
              IN [out |-> r2.out, heap |-> r2.heap, calls |-> r.calls \o r2.calls]
    ELSE IterNext(h, c.iter_b)

(***************************************************************************)
(* Each                                                                    *)
(***************************************************************************)
EachNew(h, iter, function) == Alloc(h, EachCell(iter, function))

EachMakeCopy(h, id) ==
    LET c == h[id]
        ci == IterMakeCopy(h, c.iter)
    IN Alloc(ci.heap, EachCell(ci.id, c.function))

\* An Each that does not collect the pair of its source.
EachNextKeepsPair(h, id) ==
    LET c == h[id]
        r == IterNext(h, c.iter)
    IN IF r.out = None THEN r
       ELSE IF r.out.tag = "Value"
       THEN LET result == run_function(c.function, <<r.out.v>>, 0) IN
            [out |-> IF result.ok THEN Value(result.v)
                     ELSE Error(with_prefix(result.e, "iterator.each")),
             heap |-> r.heap,
             calls |-> Append(r.calls, [src |-> r.out, args |-> <<r.out.v>>])]
       ELSE [out |-> r.out, heap |-> r.heap, calls |-> r.calls]

\* An Each that passes the error of its function on as it is.
EachNextUnprefixed(h, id) ==
    LET c == h[id]
        r == IterNext(h, c.iter)
        output == collect_pair(r.out)
    IN IF r.out = None THEN r
       ELSE IF output.tag = "Value"
       THEN LET result == run_function(c.function, <<output.v>>, 0) IN
            [out |-> IF result.ok THEN Value(result.v) ELSE Error(result.e),
             heap |-> r.heap,
             calls |-> Append(r.calls, [src |-> r.out, args |-> <<output.v>>])]
       ELSE [out |-> output, heap |-> r.heap, calls |-> r.calls]

EachNext(h, id) ==
    LET c == h[id]
        r == IterNext(h, c.iter)
        output == collect_pair(r.out)
    IN IF r.out = None THEN r
       ELSE IF output.tag = "Value"
       THEN LET result == run_function(c.function, <<output.v>>, 0) IN
            [out |-> IF result.ok THEN Value(result.v)
                     ELSE Error(with_prefix(result.e, "iterator.each")),
             heap |-> r.heap,
             calls |-> Append(r.calls, [src |-> r.out, args |-> <<output.v>>])]
       ELSE [out |-> output, heap |-> r.heap, calls |-> r.calls]

\* ValueIterator::next and ValueIterator::make_copy dispatch on the kind.
IterNext(h, id) ==
    CASE h[id].kind = "base" -> BaseNext(h, id)
      [] h[id].kind = "chain" -> ChainNext(h, id)
      [] h[id].kind = "each" -> EachNext(h, id)

IterMakeCopy(h, id) ==
    CASE h[id].kind = "base" -> BaseMakeCopy(h, id)
      [] h[id].kind = "chain" -> ChainMakeCopy(h, id)
      [] h[id].kind = "each" -> EachMakeCopy(h, id)

\* The outputs an iterator yields until its first None, of at most n.
RECURSIVE Drain(_, _, _)
Drain(h, id, n) ==
    IF n = 0 THEN <<>>
    ELSE LET r == IterNext(h, id) IN
         IF r.out = None THEN <<>> ELSE <<r.out>> \o Drain(r.heap, id, n - 1)

(***************************************************************************)
(* Bounded sequences.                                                      *)
(***************************************************************************)
SeqsUpTo(S, n) == UNION {[1..k -> S] : k \in 0..n}


(***************************************************************************)
(* The adaptor machine: a script holds a Chain or an Each in x, calls      *)
(* x.next(), takes `y = copy x` once, and calls y.next().                  *)
(***************************************************************************)
SourceError == RuntimeError("source")

AdaptorOutputs == {Value(I64(1)), ValuePair(I64(2), I64(3)), Error(SourceError)}

EachFunctions == {Fn("id"), Fn("inc")}

\* The calls a script makes on one handle: enough to drain it and to call
\* next twice more after its first None.
MaxCalls == 2 * MaxLen + 2

\* x = a.chain b
MakeChain(a, b) ==
    LET ia == Alloc(<<>>, BaseCell(a))
        ib == Alloc(ia.heap, BaseCell(b))
    IN ChainNew(ib.heap, ia.id, ib.id)

\* x = a.each f
MakeEach(a, function) ==
    LET ia == Alloc(<<>>, BaseCell(a))
    IN EachNew(ia.heap, ia.id, function)

\* x = (a.chain b).each f
MakeEachOfChain(a, b, function) ==
    LET c == MakeChain(a, b)
    IN EachNew(c.heap, c.id, function)

AdaptorSetups ==
    {MakeChain(a, b) : a \in SeqsUpTo(AdaptorOutputs, MaxLen),
                       b \in SeqsUpTo(AdaptorOutputs, MaxLen)}
    \cup {MakeEach(a, f) : a \in SeqsUpTo(AdaptorOutputs, MaxLen), f \in EachFunctions}
    \cup {MakeEachOfChain(a, b, f) : a \in SeqsUpTo(AdaptorOutputs, 1),
                                     b \in SeqsUpTo(AdaptorOutputs, 1),
                                     f \in EachFunctions}

NoInput == [a |-> <<>>, b |-> <<>>, chained |-> FALSE, function |-> Fn("none"),
            init |-> Null, n |-> 0]

NoCall == [result |-> Ok(Null), heap |-> <<>>, pulled |-> 0, calls |-> <<>>]

InitAdaptor ==
    /\ \E s \in AdaptorSetups :
        /\ heap = s.heap
        /\ x = s.id
        /\ expected = Drain(s.heap, s.id, MaxCalls)
    /\ y = 0
    /\ outsX = <<>>
    /\ outsY = <<>>
    /\ fnCalls = <<>>
    /\ copyAt = 0
    /\ op = "none"
    /\ input = NoInput
    /\ ret = NoCall

\* x.next()
XNext ==
    /\ Len(outsX) < MaxCalls
    /\ LET r == IterNext(heap, x) IN
        /\ heap' = r.heap
        /\ outsX' = Append(outsX, r.out)
        /\ fnCalls' = fnCalls \o r.calls
    /\ UNCHANGED <<x, y, outsY, expected, copyAt, op, input, ret>>

\* y.next()
YNext ==
    /\ y # 0
    /\ Len(outsY) < MaxCalls
    /\ LET r == IterNext(heap, y) IN
        /\ heap' = r.heap
        /\ outsY' = Append(outsY, r.out)
        /\ fnCalls' = fnCalls \o r.calls
    /\ UNCHANGED <<x, y, outsX, expected, copyAt, op, input, ret>>

\* y = copy x
Copy ==
    /\ y = 0
    /\ LET r == IterMakeCopy(heap, x) IN
        /\ heap' = r.heap
        /\ y' = r.id
    /\ copyAt' = Len(outsX)
    /\ UNCHANGED <<x, outsX, outsY, fnCalls, expected, op, input, ret>>

NextAdaptor == XNext \/ YNext \/ Copy

SpecAdaptor == InitAdaptor /\ [][NextAdaptor]_vars

(***************************************************************************)
(* The eager operations of the iterator module. Each takes the heap and    *)
(* the handle of the iterator that make_iterator gave for its iterable,    *)
(* and returns its Result together with the heap it leaves, the number of  *)
(* next() calls it made on the iterator (pulled) and the arguments of      *)
(* every call it made of its callback or operator (calls).                 *)
(***************************************************************************)
Ret(result, h, pulled, calls) ==
    [result |-> result, heap |-> h, pulled |-> pulled, calls |-> calls]

type_error(expected_error, unexpected) ==
    Err(RuntimeError("Expected " \o expected_error))

runtime_error(message) == Err(RuntimeError(message))

\* The arguments a predicate or consumer gets for an output.
OutputArgs(output) ==
    IF output.tag = "Value" THEN Single(output.v) ELSE AsTuple(output.k, output.v)

RECURSIVE all_loop(_, _, _, _, _)
RECURSIVE consume_loop(_, _, _)
\* An all that drains the iterator before it returns false.
all_loop_DrainsOnFalse(h, id, predicate, pulled, calls) ==
    LET r == IterNext(h, id) IN
    IF r.out = None THEN Ret(Ok(Bool(TRUE)), r.heap, pulled + 1, calls)
    ELSE IF r.out.tag = "Error" THEN Ret(Err(r.out.e), r.heap, pulled + 1, calls)
    ELSE LET args == OutputArgs(r.out)
             predicate_result == run_function(predicate, args, Len(calls))
             calls2 == Append(calls, args)
         IN IF predicate_result.ok /\ predicate_result.v.t = "Bool"
            THEN IF ~predicate_result.v.b
                 THEN LET rest == consume_loop(r.heap, id, pulled + 1) IN
                      Ret(Ok(Bool(FALSE)), rest.heap, rest.pulled, calls2)
                 ELSE all_loop(r.heap, id, predicate, pulled + 1, calls2)
            ELSE IF predicate_result.ok
            THEN Ret(type_error("a Bool to be returned from the predicate", predicate_result.v),
                     r.heap, pulled + 1, calls2)
            ELSE Ret(predicate_result, r.heap, pulled + 1, calls2)

all_loop(h, id, predicate, pulled, calls) ==
    LET r == IterNext(h, id) IN
    IF r.out = None THEN Ret(Ok(Bool(TRUE)), r.heap, pulled + 1, calls)
    ELSE IF r.out.tag = "Error" THEN Ret(Err(r.out.e), r.heap, pulled + 1, calls)
    ELSE LET args == OutputArgs(r.out)
             predicate_result == run_function(predicate, args, Len(calls))
             calls2 == Append(calls, args)
         IN IF predicate_result.ok /\ predicate_result.v.t = "Bool"
            THEN IF ~predicate_result.v.b
                 THEN Ret(Ok(Bool(FALSE)), r.heap, pulled + 1, calls2)
                 ELSE all_loop(r.heap, id, predicate, pulled + 1, calls2)
            ELSE IF predicate_result.ok
            THEN Ret(type_error("a Bool to be returned from the predicate", predicate_result.v),
                     r.heap, pulled + 1, calls2)
            ELSE Ret(predicate_result, r.heap, pulled + 1, calls2)

all(h, id, predicate) == all_loop(h, id, predicate, 0, <<>>)

RECURSIVE any_loop(_, _, _, _, _)
any_loop(h, id, predicate, pulled, calls) ==
    LET r == IterNext(h, id) IN
    IF r.out = None THEN Ret(Ok(Bool(FALSE)), r.heap, pulled + 1, calls)
    ELSE IF r.out.tag = "Error" THEN Ret(Err(r.out.e), r.heap, pulled + 1, calls)
    ELSE LET args == OutputArgs(r.out)
             predicate_result == run_function(predicate, args, Len(calls))
             calls2 == Append(calls, args)
         IN IF predicate_result.ok /\ predicate_result.v.t = "Bool"
            THEN IF predicate_result.v.b
                 THEN Ret(Ok(Bool(TRUE)), r.heap, pulled + 1, calls2)
                 ELSE any_loop(r.heap, id, predicate, pulled + 1, calls2)
            ELSE IF predicate_result.ok
            THEN Ret(type_error("a Bool to be returned from the predicate", predicate_result.v),
                     r.heap, pulled + 1, calls2)
            ELSE Ret(predicate_result, r.heap, pulled + 1, calls2)

any(h, id, predicate) == any_loop(h, id, predicate, 0, <<>>)

RECURSIVE find_loop(_, _, _, _, _)
find_loop(h, id, predicate, pulled, calls) ==
    LET r == IterNext(h, id)
        output == collect_pair(r.out)
    IN
    IF r.out = None THEN Ret(Ok(Null), r.heap, pulled + 1, calls)
    ELSE IF output.tag = "Error" THEN Ret(Err(output.e), r.heap, pulled + 1, calls)
    ELSE LET args == Single(output.v)
             predicate_result == run_function(predicate, args, Len(calls))
             calls2 == Append(calls, args)
         IN IF predicate_result.ok /\ predicate_result.v.t = "Bool"
            THEN IF predicate_result.v.b
                 THEN Ret(Ok(output.v), r.heap, pulled + 1, calls2)
                 ELSE find_loop(r.heap, id, predicate, pulled + 1, calls2)
            ELSE IF predicate_result.ok
            THEN Ret(type_error("a Bool to be returned from the predicate", predicate_result.v),
                     r.heap, pulled + 1, calls2)
            ELSE Ret(predicate_result, r.heap, pulled + 1, calls2)

find(h, id, predicate) == find_loop(h, id, predicate, 0, <<>>)

\* i is the index that enumerate() gives the output: the outputs before it.
RECURSIVE position_loop(_, _, _, _, _)
\* A position that takes a value that is not a Bool for false.
position_loop_NonBoolIsFalse(h, id, predicate, i, calls) ==
    LET r == IterNext(h, id) IN
    IF r.out = None THEN Ret(Ok(Null), r.heap, i + 1, calls)
    ELSE IF r.out.tag = "Error" THEN Ret(Err(r.out.e), r.heap, i + 1, calls)
    ELSE LET args == OutputArgs(r.out)
             predicate_result == run_function(predicate, args, Len(calls))
             calls2 == Append(calls, args)
         IN IF predicate_result.ok
            THEN IF predicate_result.v = Bool(TRUE)
                 THEN Ret(Ok(I64(i)), r.heap, i + 1, calls2)
                 ELSE position_loop(r.heap, id, predicate, i + 1, calls2)
            ELSE Ret(predicate_result, r.heap, i + 1, calls2)

\* A position that counts the items from one.
position_loop_OneBased(h, id, predicate, i, calls) ==
    LET r == IterNext(h, id) IN
    IF r.out = None THEN Ret(Ok(Null), r.heap, i + 1, calls)
    ELSE IF r.out.tag = "Error" THEN Ret(Err(r.out.e), r.heap, i + 1, calls)
    ELSE LET args == OutputArgs(r.out)
             predicate_result == run_function(predicate, args, Len(calls))
             calls2 == Append(calls, args)
         IN IF predicate_result.ok /\ predicate_result.v.t = "Bool"
            THEN IF predicate_result.v.b
                 THEN Ret(Ok(I64(i + 1)), r.heap, i + 1, calls2)
                 ELSE position_loop(r.heap, id, predicate, i + 1, calls2)
            ELSE IF predicate_result.ok
            THEN Ret(type_error("a Bool to be returned from the predicate", predicate_result.v),
                     r.heap, i + 1, calls2)
            ELSE Ret(predicate_result, r.heap, i + 1, calls2)

position_loop(h, id, predicate, i, calls) ==
    LET r == IterNext(h, id) IN
    IF r.out = None THEN Ret(Ok(Null), r.heap, i + 1, calls)
    ELSE IF r.out.tag = "Error" THEN Ret(Err(r.out.e), r.heap, i + 1, calls)
    ELSE LET args == OutputArgs(r.out)
             predicate_result == run_function(predicate, args, Len(calls))
             calls2 == Append(calls, args)
         IN IF predicate_result.ok /\ predicate_result.v.t = "Bool"
            THEN IF predicate_result.v.b
                 THEN Ret(Ok(I64(i)), r.heap, i + 1, calls2)
                 ELSE position_loop(r.heap, id, predicate, i + 1, calls2)
            ELSE IF predicate_result.ok
            THEN Ret(type_error("a Bool to be returned from the predicate", predicate_result.v),
                     r.heap, i + 1, calls2)
            ELSE Ret(predicate_result, r.heap, i + 1, calls2)

position(h, id, predicate) == position_loop(h, id, predicate, 0, <<>>)

RECURSIVE count_loop(_, _, _, _)
\* A count that counts an Error as an item.
count_loop_CountsErrors(h, id, result, pulled) ==
    LET r == IterNext(h, id) IN
    IF r.out = None THEN Ret(Ok(I64(result)), r.heap, pulled + 1, <<>>)
    ELSE count_loop(r.heap, id, result + 1, pulled + 1)

count_loop(h, id, result, pulled) ==
    LET r == IterNext(h, id) IN
    IF r.out = None THEN Ret(Ok(I64(result)), r.heap, pulled + 1, <<>>)
    ELSE IF r.out.tag = "Error" THEN Ret(Err(r.out.e), r.heap, pulled + 1, <<>>)
    ELSE count_loop(r.heap, id, result + 1, pulled + 1)

count(h, id) == count_loop(h, id, 0, 0)

\* consume without a function
consume_loop(h, id, pulled) ==
    LET r == IterNext(h, id) IN
    IF r.out = None THEN Ret(Ok(Null), r.heap, pulled + 1, <<>>)
    ELSE IF r.out.tag = "Error" THEN Ret(Err(r.out.e), r.heap, pulled + 1, <<>>)
    ELSE consume_loop(r.heap, id, pulled + 1)

\* consume with a function
RECURSIVE consume_with_loop(_, _, _, _, _)
consume_with_loop(h, id, f, pulled, calls) ==
    LET r == IterNext(h, id) IN
    IF r.out = None THEN Ret(Ok(Null), r.heap, pulled + 1, calls)
    ELSE IF r.out.tag = "Error" THEN Ret(Err(r.out.e), r.heap, pulled + 1, calls)
    ELSE LET args == OutputArgs(r.out)
             f_result == run_function(f, args, Len(calls))
             calls2 == Append(calls, args)
         IN IF f_result.ok
            THEN consume_with_loop(r.heap, id, f, pulled + 1, calls2)
            ELSE Ret(f_result, r.heap, pulled + 1, calls2)

consume(h, id) == consume_loop(h, id, 0)

consume_with(h, id, f) == consume_with_loop(h, id, f, 0, <<>>)

RECURSIVE last_loop(_, _, _, _)
last_loop(h, id, result, pulled) ==
    LET r == IterNext(h, id)
        output == collect_pair(r.out)
    IN
    IF r.out = None THEN Ret(Ok(result), r.heap, pulled + 1, <<>>)
    ELSE IF output.tag = "Error" THEN Ret(Err(output.e), r.heap, pulled + 1, <<>>)
    ELSE last_loop(r.heap, id, output.v, pulled + 1)

last(h, id) == last_loop(h, id, Null, 0)

RECURSIVE fold_loop(_, _, _, _, _, _)
\* A fold that passes the item before the accumulator.
fold_loop_SwappedArgs(h, id, fold_result, f, pulled, calls) ==
    LET r == IterNext(h, id)
        value == collect_pair(r.out)
    IN
    IF r.out = None THEN Ret(Ok(fold_result), r.heap, pulled + 1, calls)
    ELSE IF value.tag = "Error" THEN Ret(Err(value.e), r.heap, pulled + 1, calls)
    ELSE LET args == Separate(value.v, fold_result)
             result == run_function(f, args, Len(calls))
             calls2 == Append(calls, args)
         IN IF result.ok
            THEN fold_loop(r.heap, id, result.v, f, pulled + 1, calls2)
            ELSE Ret(Err(result.e), r.heap, pulled + 1, calls2)

fold_loop(h, id, fold_result, f, pulled, calls) ==
    LET r == IterNext(h, id)
        value == collect_pair(r.out)
    IN
    IF r.out = None THEN Ret(Ok(fold_result), r.heap, pulled + 1, calls)
    ELSE IF value.tag = "Error" THEN Ret(Err(value.e), r.heap, pulled + 1, calls)
    ELSE LET args == Separate(fold_result, value.v)
             result == run_function(f, args, Len(calls))
             calls2 == Append(calls, args)
         IN IF result.ok
            THEN fold_loop(r.heap, id, result.v, f, pulled + 1, calls2)
            ELSE Ret(Err(result.e), r.heap, pulled + 1, calls2)

fold(h, id, result, f) == fold_loop(h, id, result, f, 0, <<>>)

RECURSIVE fold_with_operator_loop(_, _, _, _, _, _)
fold_with_operator_loop(h, id, result, operator, pulled, calls) ==
    LET r == IterNext(h, id)
        output == collect_pair(r.out)
    IN
    IF r.out = None THEN Ret(Ok(result), r.heap, pulled + 1, calls)
    ELSE IF output.tag = "Error" THEN Ret(Err(output.e), r.heap, pulled + 1, calls)
    ELSE LET next_result == run_binary_op(operator, result, output.v)
             calls2 == Append(calls, <<result, output.v>>)
         IN IF next_result.ok
            THEN fold_with_operator_loop(r.heap, id, next_result.v, operator, pulled + 1, calls2)
            ELSE Ret(next_result, r.heap, pulled + 1, calls2)

fold_with_operator(h, id, initial_value, operator) ==
    fold_with_operator_loop(h, id, initial_value, operator, 0, <<>>)

sum(h, id, initial_value) == fold_with_operator(h, id, initial_value, "Add")

product(h, id, initial_value) == fold_with_operator(h, id, initial_value, "Multiply")

\* The collecting loop of to_list and to_tuple.
RECURSIVE collect_loop(_, _, _, _)
collect_loop(h, id, result, pulled) ==
    LET r == IterNext(h, id)
        output == collect_pair(r.out)
    IN
    IF r.out = None THEN Ret(Ok(result), r.heap, pulled + 1, <<>>)
    ELSE IF output.tag = "Error" THEN Ret(Err(output.e), r.heap, pulled + 1, <<>>)
    ELSE collect_loop(r.heap, id, Append(result, output.v), pulled + 1)

to_list(h, id) ==
    LET c == collect_loop(h, id, <<>>, 0) IN
    IF c.result.ok THEN [c EXCEPT !.result = Ok(List(c.result.v))] ELSE c

to_tuple(h, id) ==
    LET c == collect_loop(h, id, <<>>, 0) IN
    IF c.result.ok THEN [c EXCEPT !.result = Ok(Tuple(c.result.v))] ELSE c

(***************************************************************************)
(* min, max and min_max.                                                   *)
(***************************************************************************)
NoResult == [some |-> FALSE]
Some(v) == [some |-> TRUE, v |-> v]

\* A comparison that asks whether b is less than a.
compare_values_BLessA(a, b, invert_result) ==
    LET comparison_result == run_binary_op("Less", b, a) IN
    IF ~comparison_result.ok THEN comparison_result
    ELSE IF comparison_result.v.t = "Bool"
    THEN CASE comparison_result.v.b /\ invert_result = "No" -> Ok(b)
           [] ~comparison_result.v.b /\ invert_result = "No" -> Ok(a)
           [] comparison_result.v.b /\ invert_result = "Yes" -> Ok(a)
           [] ~comparison_result.v.b /\ invert_result = "Yes" -> Ok(b)
    ELSE runtime_error("Expected Bool from '<' comparison")

\* The lesser of a and b by `<`, or the other one when invert_result is "Yes".
compare_values(a, b, invert_result) ==
    LET comparison_result == run_binary_op("Less", a, b) IN
    IF ~comparison_result.ok THEN comparison_result
    ELSE IF comparison_result.v.t = "Bool"
    THEN CASE comparison_result.v.b /\ invert_result = "No" -> Ok(a)
           [] ~comparison_result.v.b /\ invert_result = "No" -> Ok(b)
           [] comparison_result.v.b /\ invert_result = "Yes" -> Ok(b)
           [] ~comparison_result.v.b /\ invert_result = "Yes" -> Ok(a)
    ELSE runtime_error("Expected Bool from '<' comparison")

\* a_and_key and b_and_key are <<value, key>>.
compare_values_with_key(a_and_key, b_and_key, invert_result) ==
    LET comparison_result == run_binary_op("Less", a_and_key[2], b_and_key[2]) IN
    IF ~comparison_result.ok THEN comparison_result
    ELSE IF comparison_result.v.t = "Bool"
    THEN CASE comparison_result.v.b /\ invert_result = "No" -> Ok(a_and_key)
           [] ~comparison_result.v.b /\ invert_result = "No" -> Ok(b_and_key)
           [] comparison_result.v.b /\ invert_result = "Yes" -> Ok(b_and_key)
           [] ~comparison_result.v.b /\ invert_result = "Yes" -> Ok(a_and_key)
    ELSE runtime_error("Expected Bool from '<' comparison")

RECURSIVE run_iterator_comparison_loop(_, _, _, _, _)
run_iterator_comparison_loop(h, id, invert_result, result, pulled) ==
    LET r == IterNext(h, id)
        iter_output == collect_pair(r.out)
    IN
    IF r.out = None
    THEN Ret(Ok(IF result.some THEN result.v ELSE Null), r.heap, pulled + 1, <<>>)
    ELSE IF iter_output.tag = "Error" THEN Ret(Err(iter_output.e), r.heap, pulled + 1, <<>>)
    ELSE IF result.some
    THEN LET compared == compare_values(result.v, iter_output.v, invert_result) IN
         IF compared.ok
         THEN run_iterator_comparison_loop(r.heap, id, invert_result, Some(compared.v),
                                           pulled + 1)
         ELSE Ret(compared, r.heap, pulled + 1, <<>>)
    ELSE run_iterator_comparison_loop(r.heap, id, invert_result, Some(iter_output.v),
                                      pulled + 1)

run_iterator_comparison(h, id, invert_result) ==
    run_iterator_comparison_loop(h, id, invert_result, NoResult, 0)

RECURSIVE run_iterator_comparison_by_key_loop(_, _, _, _, _, _, _)
run_iterator_comparison_by_key_loop(h, id, key_fn, invert_result, result_and_key, pulled, calls) ==
    LET r == IterNext(h, id)
        iter_output == collect_pair(r.out)
    IN
    IF r.out = None
    THEN Ret(Ok(IF result_and_key.some THEN result_and_key.v[1] ELSE Null),
             r.heap, pulled + 1, calls)
    ELSE IF iter_output.tag = "Error" THEN Ret(Err(iter_output.e), r.heap, pulled + 1, calls)
    ELSE LET args == Single(iter_output.v)
             key == run_function(key_fn, args, Len(calls))
             calls2 == Append(calls, args)
         IN
         IF ~key.ok THEN Ret(key, r.heap, pulled + 1, calls2)
         ELSE LET value_and_key == <<iter_output.v, key.v>> IN
              IF result_and_key.some
              THEN LET compared == compare_values_with_key(result_and_key.v, value_and_key,
                                                           invert_result) IN
                   IF compared.ok
                   THEN run_iterator_comparison_by_key_loop(
                            r.heap, id, key_fn, invert_result, Some(compared.v),
                            pulled + 1, calls2)
                   ELSE Ret(compared, r.heap, pulled + 1, calls2)
              ELSE run_iterator_comparison_by_key_loop(
                       r.heap, id, key_fn, invert_result, Some(value_and_key),
                       pulled + 1, calls2)

run_iterator_comparison_by_key(h, id, key_fn, invert_result) ==
    run_iterator_comparison_by_key_loop(h, id, key_fn, invert_result, NoResult, 0, <<>>)

max(h, id) == run_iterator_comparison(h, id, "Yes")
max_by_key(h, id, key_fn) == run_iterator_comparison_by_key(h, id, key_fn, "Yes")
min(h, id) == run_iterator_comparison(h, id, "No")
min_by_key(h, id, key_fn) == run_iterator_comparison_by_key(h, id, key_fn, "No")

\* min_max without a key function; result holds <<min, max>>.
RECURSIVE min_max_loop(_, _, _, _)
\* A min_max that does not invert the comparison for the maximum.
min_max_loop_BothMin(h, id, result, pulled) ==
    LET r == IterNext(h, id)
        iter_output == collect_pair(r.out)
    IN
    IF r.out = None
    THEN Ret(Ok(IF result.some THEN Tuple(<<result.v[1], result.v[2]>>) ELSE Null),
             r.heap, pulled + 1, <<>>)
    ELSE IF iter_output.tag = "Error" THEN Ret(Err(iter_output.e), r.heap, pulled + 1, <<>>)
    ELSE IF result.some
    THEN LET new_min == compare_values(result.v[1], iter_output.v, "No")
             new_max == compare_values(result.v[2], iter_output.v, "No")
         IN IF ~new_min.ok THEN Ret(new_min, r.heap, pulled + 1, <<>>)
            ELSE IF ~new_max.ok THEN Ret(new_max, r.heap, pulled + 1, <<>>)
            ELSE min_max_loop(r.heap, id, Some(<<new_min.v, new_max.v>>), pulled + 1)
    ELSE min_max_loop(r.heap, id, Some(<<iter_output.v, iter_output.v>>), pulled + 1)

min_max_loop(h, id, result, pulled) ==
    LET r == IterNext(h, id)
        iter_output == collect_pair(r.out)
    IN
    IF r.out = None
    THEN Ret(Ok(IF result.some THEN Tuple(<<result.v[1], result.v[2]>>) ELSE Null),
             r.heap, pulled + 1, <<>>)
    ELSE IF iter_output.tag = "Error" THEN Ret(Err(iter_output.e), r.heap, pulled + 1, <<>>)
    ELSE IF result.some
    THEN LET new_min == compare_values(result.v[1], iter_output.v, "No")
             new_max == compare_values(result.v[2], iter_output.v, "Yes")
         IN IF ~new_min.ok THEN Ret(new_min, r.heap, pulled + 1, <<>>)
            ELSE IF ~new_max.ok THEN Ret(new_max, r.heap, pulled + 1, <<>>)
            ELSE min_max_loop(r.heap, id, Some(<<new_min.v, new_max.v>>), pulled + 1)
    ELSE min_max_loop(r.heap, id, Some(<<iter_output.v, iter_output.v>>), pulled + 1)

min_max(h, id) == min_max_loop(h, id, NoResult, 0)

\* min_max with a key function; result holds <<min_and_key, max_and_key>>.
RECURSIVE min_max_by_key_loop(_, _, _, _, _, _)
min_max_by_key_loop(h, id, key_fn, result, pulled, calls) ==
    LET r == IterNext(h, id)
        iter_output == collect_pair(r.out)
    IN
    IF r.out = None
    THEN Ret(Ok(IF result.some THEN Tuple(<<result.v[1][1], result.v[2][1]>>) ELSE Null),
             r.heap, pulled + 1, calls)
    ELSE IF iter_output.tag = "Error" THEN Ret(Err(iter_output.e), r.heap, pulled + 1, calls)
    ELSE LET args == Single(iter_output.v)
             key == run_function(key_fn, args, Len(calls))
             calls2 == Append(calls, args)
         IN
         IF ~key.ok THEN Ret(key, r.heap, pulled + 1, calls2)
         ELSE LET value_and_key == <<iter_output.v, key.v>> IN
              IF result.some
              THEN LET new_min == compare_values_with_key(result.v[1], value_and_key, "No")
                       new_max == compare_values_with_key(result.v[2], value_and_key, "Yes")
                   IN IF ~new_min.ok THEN Ret(new_min, r.heap, pulled + 1, calls2)
                      ELSE IF ~new_max.ok THEN Ret(new_max, r.heap, pulled + 1, calls2)
                      ELSE min_max_by_key_loop(r.heap, id, key_fn,
                                               Some(<<new_min.v, new_max.v>>),
                                               pulled + 1, calls2)
              ELSE min_max_by_key_loop(r.heap, id, key_fn,
                                       Some(<<value_and_key, value_and_key>>),
                                       pulled + 1, calls2)

min_max_by_key(h, id, key_fn) == min_max_by_key_loop(h, id, key_fn, NoResult, 0, <<>>)

(***************************************************************************)
(* skip                                                                    *)
(***************************************************************************)
\* n calls of next(), whatever they return, unless one returns an Error.
RECURSIVE skip_loop(_, _, _, _)
\* A skip that fails when the source ends before the n-th call.
skip_loop_FailsAtEnd(h, id, n, pulled) ==
    IF n = 0 THEN Ret(Ok(Iterator(id)), h, pulled, <<>>)
    ELSE LET r == IterNext(h, id) IN
         IF r.out = None THEN Ret(runtime_error("skipped past the end"), r.heap, pulled + 1, <<>>)
         ELSE IF r.out.tag = "Error" THEN Ret(Err(r.out.e), r.heap, pulled + 1, <<>>)
         ELSE skip_loop(r.heap, id, n - 1, pulled + 1)

skip_loop(h, id, n, pulled) ==
    IF n = 0 THEN Ret(Ok(Iterator(id)), h, pulled, <<>>)
    ELSE LET r == IterNext(h, id) IN
         IF r.out.tag = "Error" THEN Ret(Err(r.out.e), r.heap, pulled + 1, <<>>)
         ELSE skip_loop(r.heap, id, n - 1, pulled + 1)

skip(h, id, n) == skip_loop(h, id, n, 0)

(***************************************************************************)
(* Claims about the adaptors.                                              *)
(***************************************************************************)
\* The i-th result of next() on an undisturbed x.
ExpectedAt(i) == IF i <= Len(expected) THEN expected[i] ELSE None

\* C1: a copy of a Chain or an Each taken after k calls of x.next() is
\* independent of x: whatever calls of x.next() and y.next() follow, in any
\* order, x goes on yielding its own undisturbed sequence, y yields that
\* sequence from position k + 1 on, and what y has left is what remains of it.
C1_CopyIsIndependent ==
    /\ \A i \in 1..Len(outsX) : outsX[i] = ExpectedAt(i)
    /\ \A i \in 1..Len(outsY) : outsY[i] = ExpectedAt(copyAt + i)
    /\ Drain(heap, x, MaxCalls) = SubSeq(expected, Len(outsX) + 1, Len(expected))
    /\ y # 0 => Drain(heap, y, MaxCalls)
                    = SubSeq(expected, copyAt + Len(outsY) + 1, Len(expected))

\* The scenario of the tests: next, copy, next, next on x, then y.next()
\* gives the second item, which x has already moved past.
C1_Witness ==
    /\ y # 0
    /\ copyAt = 1
    /\ Len(outsX) = 3
    /\ Len(outsY) = 1
    /\ Len(expected) >= 3
    /\ outsY[1] = expected[2]
    /\ outsY[1] # outsX[3]
    /\ outsX[3] # None

IsEach(id) == heap[id].kind = "each"

FromEach(o) == o.tag = "Value" \/ (o.tag = "Error" /\ o.e.prefix = "iterator.each")

CountIf(s, P(_)) == Cardinality({i \in 1..Len(s) : P(s[i])})

\* C10: an Each never yields a ValuePair, and a ValuePair(k, v) of its source
\* reaches the function as the one argument (k, v); the function is called
\* once for every Value and ValuePair of the source and never for an Error.
C10_NoPairSurvivesEach ==
    IsEach(x) =>
        /\ \A i \in 1..Len(outsX) : outsX[i].tag \in {"Value", "Error", "None"}
        /\ \A i \in 1..Len(outsY) : outsY[i].tag \in {"Value", "Error", "None"}
        /\ \A i \in 1..Len(fnCalls) :
              /\ fnCalls[i].src.tag \in {"Value", "ValuePair"}
              /\ fnCalls[i].src.tag = "ValuePair" =>
                    fnCalls[i].args = <<Tuple(<<fnCalls[i].src.k, fnCalls[i].src.v>>)>>
              /\ fnCalls[i].src.tag = "Value" => fnCalls[i].args = <<fnCalls[i].src.v>>
        /\ Len(fnCalls) = CountIf(outsX, FromEach) + CountIf(outsY, FromEach)

\* An Each over a source that held a ValuePair has yielded it as a tuple.
C10_Witness ==
    /\ IsEach(x)
    /\ \E i \in 1..Len(fnCalls) : fnCalls[i].src.tag = "ValuePair"
    /\ \E i \in 1..Len(outsX) : outsX[i] = Value(Tuple(<<I64(2), I64(3)>>))

\* The two parts of the source of x, as the script gave them: every setup
\* puts a at handle 1, and b at handle 2 when there is a Chain.
SourceA == heap[1].items
SourceB == IF heap[2].kind = "base" THEN heap[2].items ELSE <<>>
SourceItems == SourceA \o SourceB

\* What Each's function returns for the i-th output of the source.
EachResult(i) ==
    run_function(heap[x].function,
                 <<IF SourceItems[i].tag = "ValuePair"
                   THEN Tuple(<<SourceItems[i].k, SourceItems[i].v>>)
                   ELSE SourceItems[i].v>>, 0)

\* What x yields on its i-th next(): the i-th output of the source as it is
\* for a Chain, and for an Each the function's result for it.
OutputAt(i) ==
    IF i > Len(SourceItems) THEN None
    ELSE IF SourceItems[i].tag = "Error" \/ ~IsEach(x) THEN SourceItems[i]
    ELSE IF EachResult(i).ok THEN Value(EachResult(i).v)
    ELSE Error(with_prefix(EachResult(i).e, "iterator.each"))

\* The positions at which Each's function fails.
FailsAt(i) ==
    /\ i <= Len(SourceItems)
    /\ SourceItems[i].tag # "Error"
    /\ ~EachResult(i).ok

\* C11: when Each's function fails for the i-th item, the i-th output of the
\* Each is Error carrying that error with the prefix "iterator.each", and
\* the output after it is what the Each yields for the (i+1)-th item of the
\* source; the same for a copy of the Each.
C11_EachErrorGoesOn ==
    IsEach(x) =>
        /\ \A i \in 1..Len(outsX) :
              FailsAt(i) =>
                 /\ outsX[i] = Error([EachResult(i).e EXCEPT !.prefix = "iterator.each"])
                 /\ i < Len(outsX) => outsX[i + 1] = OutputAt(i + 1)
        /\ \A j \in 1..Len(outsY) :
              FailsAt(copyAt + j) =>
                 /\ outsY[j] = Error([EachResult(copyAt + j).e
                                        EXCEPT !.prefix = "iterator.each"])
                 /\ j < Len(outsY) => outsY[j + 1] = OutputAt(copyAt + j + 1)

\* The function has failed for the first item, a pair, and has been applied
\* to the second.
C11_Witness ==
    /\ IsEach(x)
    /\ heap[x].function = Fn("inc")
    /\ SourceItems = <<ValuePair(I64(2), I64(3)), Value(I64(1))>>
    /\ outsX = <<Error([msg |-> "inc", prefix |-> "iterator.each"]), Value(I64(2))>>

ErrorPositions == {i \in 1..Len(SourceItems) : SourceItems[i].tag = "Error"}

\* The number of outputs of the source, other than its Errors, that x and y
\* have gone through.
ItemsPulled ==
    Cardinality({i \in 1..Len(outsX) : i <= Len(SourceItems) /\ i \notin ErrorPositions})
    + Cardinality({j \in 1..Len(outsY) :
                      copyAt + j <= Len(SourceItems) /\ (copyAt + j) \notin ErrorPositions})

\* C12: an Error of the source is the output of the Chain or Each at the
\* same position, the function of an Each is not called for it, and the
\* output after it is what the adaptor yields for the next output of the
\* source; the same for a copy.
C12_SourceErrorPassesThrough ==
    /\ \A i \in 1..Len(outsX) :
          i \in ErrorPositions =>
             /\ outsX[i] = SourceItems[i]
             /\ i < Len(outsX) => outsX[i + 1] = OutputAt(i + 1)
    /\ \A j \in 1..Len(outsY) :
          (copyAt + j) \in ErrorPositions =>
             /\ outsY[j] = SourceItems[copyAt + j]
             /\ j < Len(outsY) => outsY[j + 1] = OutputAt(copyAt + j + 1)
    /\ \A i \in 1..Len(fnCalls) : fnCalls[i].src.tag # "Error"
    /\ Len(fnCalls) = IF IsEach(x) THEN ItemsPulled ELSE 0

\* A Chain has yielded an Error of its first part, then the item after it and
\* the item of its second part.
C12_Witness ==
    /\ ~IsEach(x)
    /\ SourceA = <<Error(SourceError), Value(I64(1))>>
    /\ SourceB = <<Value(I64(1))>>
    /\ outsX = <<Error(SourceError), Value(I64(1)), Value(I64(1)), None>>

\* The copy was taken after the Chain had seen the None of its first part.
CopiedInSecond ==
    /\ ~IsEach(x)
    /\ y # 0
    /\ copyAt > Len(SourceA)

\* C13: a copy of a Chain taken after the first part has returned None holds
\* a copy of the second part only: no copy of the first part is made, and
\* the outputs of the copy are the outputs of the second part from the one
\* the original would have yielded next at the time of the copy.
C13_CopyInSecondIter ==
    CopiedInSecond =>
        /\ heap[y].kind = "chain"
        /\ heap[y].iter_a = 0
        /\ heap[y].iter_b # heap[x].iter_b
        /\ Len(heap) = 5
        /\ \A j \in 1..Len(outsY) :
              outsY[j] = IF copyAt - Len(SourceA) + j <= Len(SourceB)
                         THEN SourceB[copyAt - Len(SourceA) + j]
                         ELSE None

\* The scenario of the test: the Chain is advanced into its second part and
\* copied, the original is advanced to its end, and the copy then yields the
\* item of the second part that followed the copy point.
C13_Witness ==
    /\ CopiedInSecond
    /\ SourceA = <<Value(I64(1))>>
    /\ SourceB = <<ValuePair(I64(2), I64(3)), Value(I64(1))>>
    /\ copyAt = 2
    /\ Len(outsX) = 4
    /\ outsX[4] = None
    /\ outsY = <<Value(I64(1))>>

(***************************************************************************)
(* The eager machine: a script makes one call of an eager operation of the *)
(* iterator module on an iterable it has built.                            *)
(***************************************************************************)
Object == [t |-> "Object"]

EagerOutputs ==
    {Value(I64(1)), Value(I64(2)), ValuePair(I64(2), I64(3)), Error(SourceError)}

PredicateOutputs == {Value(I64(1)), ValuePair(I64(2), I64(3)), Error(SourceError)}

PredicateResults ==
    {Ok(Bool(TRUE)), Ok(Bool(FALSE)), Ok(Null), Err(RuntimeError("predicate"))}

ComparedOutputs ==
    {Value(I64(1)), Value(F64(1)), Value(I64(2)), Value(Object),
     ValuePair(I64(2), I64(3)), Error(SourceError)}

KeyedOutputs == {Value(I64(-2)), Value(I64(1)), Value(I64(2)), Error(SourceError)}

KeyResults == {Ok(I64(1)), Ok(I64(2)), Ok(Object), Err(RuntimeError("key"))}

FoldResults == {Ok(I64(7)), Err(RuntimeError("f"))}

ConsumerResults == {Ok(Null), Err(RuntimeError("f"))}

InitialValues == {I64(0), I64(5)}

\* The script functions that are called at most n times.
Scripts(results, n) == {Script(r) : r \in [1..n -> results]}

KeyFunctions(n) == {Fn("abs")} \cup Scripts(KeyResults, n)

FoldFunctions(n) == {Fn("add")} \cup Scripts(FoldResults, n)

\* make_iterator of a list or tuple of the given outputs
MakeIter(items) == Alloc(<<>>, BaseCell(items))

\* make_iterator of the iterable an input describes: a.chain(b), or a
MakeSource(in) == IF in.chained THEN MakeChain(in.a, in.b) ELSE MakeIter(in.a)

In(a, function, init, n) ==
    [a |-> a, b |-> <<>>, chained |-> FALSE, function |-> function, init |-> init, n |-> n]

InChain(a, b) ==
    [a |-> a, b |-> b, chained |-> TRUE, function |-> Fn("none"), init |-> Null, n |-> 0]

adaptorVars == <<heap, x, y, outsX, outsY, fnCalls, expected, copyAt>>

InitEager ==
    /\ heap = <<>>
    /\ x = 0
    /\ y = 0
    /\ outsX = <<>>
    /\ outsY = <<>>
    /\ fnCalls = <<>>
    /\ expected = <<>>
    /\ copyAt = 0
    /\ op = "none"
    /\ input = NoInput
    /\ ret = NoCall

\* The script has called operation name on input in, and r is what the call did.
Called(name, in, r) ==
    /\ op' = name
    /\ input' = in
    /\ ret' = r
    /\ UNCHANGED adaptorVars

CallAll ==
    /\ op = "none"
    /\ \E a \in SeqsUpTo(PredicateOutputs, MaxItems) :
         \E predicate \in Scripts(PredicateResults, Len(a)) :
           LET s == MakeIter(a) IN
           Called("all", In(a, predicate, Null, 0), all(s.heap, s.id, predicate))

CallAny ==
    /\ op = "none"
    /\ \E a \in SeqsUpTo(PredicateOutputs, MaxItems) :
         \E predicate \in Scripts(PredicateResults, Len(a)) :
           LET s == MakeIter(a) IN
           Called("any", In(a, predicate, Null, 0), any(s.heap, s.id, predicate))

CallFind ==
    /\ op = "none"
    /\ \E a \in SeqsUpTo(PredicateOutputs, MaxItems) :
         \E predicate \in Scripts(PredicateResults, Len(a)) :
           LET s == MakeIter(a) IN
           Called("find", In(a, predicate, Null, 0), find(s.heap, s.id, predicate))

CallPosition ==
    /\ op = "none"
    /\ \E a \in SeqsUpTo(PredicateOutputs, MaxItems) :
         \E predicate \in Scripts(PredicateResults, Len(a)) :
           LET s == MakeIter(a) IN
           Called("position", In(a, predicate, Null, 0), position(s.heap, s.id, predicate))

CallCount ==
    /\ op = "none"
    /\ \E a \in SeqsUpTo(EagerOutputs, MaxItems) :
           LET s == MakeIter(a) IN
           Called("count", In(a, Fn("none"), Null, 0), count(s.heap, s.id))

CallConsume ==
    /\ op = "none"
    /\ \E a \in SeqsUpTo(EagerOutputs, MaxItems) :
           LET s == MakeIter(a) IN
           Called("consume", In(a, Fn("none"), Null, 0), consume(s.heap, s.id))

CallConsumeWith ==
    /\ op = "none"
    /\ \E a \in SeqsUpTo(EagerOutputs, MaxItems) :
         \E f \in Scripts(ConsumerResults, Len(a)) :
           LET s == MakeIter(a) IN
           Called("consume_with", In(a, f, Null, 0), consume_with(s.heap, s.id, f))

CallLast ==
    /\ op = "none"
    /\ \E a \in SeqsUpTo(EagerOutputs, MaxItems) :
           LET s == MakeIter(a) IN
           Called("last", In(a, Fn("none"), Null, 0), last(s.heap, s.id))

CallFold ==
    /\ op = "none"
    /\ \E a \in SeqsUpTo(EagerOutputs, MaxItems) :
         \E f \in FoldFunctions(Len(a)) :
           \E init \in InitialValues :
             LET s == MakeIter(a) IN
             Called("fold", In(a, f, init, 0), fold(s.heap, s.id, init, f))

CallSum ==
    /\ op = "none"
    /\ \E a \in SeqsUpTo(EagerOutputs, MaxItems) :
         \E init \in InitialValues :
           LET s == MakeIter(a) IN
           Called("sum", In(a, Fn("none"), init, 0), sum(s.heap, s.id, init))

CallProduct ==
    /\ op = "none"
    /\ \E a \in SeqsUpTo(EagerOutputs, MaxItems) :
         \E init \in InitialValues :
           LET s == MakeIter(a) IN
           Called("product", In(a, Fn("none"), init, 0), product(s.heap, s.id, init))

\* to_list of a, or of a.chain(b)
CallToList ==
    /\ op = "none"
    /\ \E a \in SeqsUpTo(EagerOutputs, MaxItems) :
         \E b \in SeqsUpTo(EagerOutputs, MaxItems) :
           \E in \in {In(a, Fn("none"), Null, 0), InChain(a, b)} :
             LET s == MakeSource(in) IN
             Called("to_list", in, to_list(s.heap, s.id))

CallToTuple ==
    /\ op = "none"
    /\ \E a \in SeqsUpTo(EagerOutputs, MaxItems) :
           LET s == MakeIter(a) IN
           Called("to_tuple", In(a, Fn("none"), Null, 0), to_tuple(s.heap, s.id))

CallMin ==
    /\ op = "none"
    /\ \E a \in SeqsUpTo(ComparedOutputs, MaxItems) :
           LET s == MakeIter(a) IN
           Called("min", In(a, Fn("none"), Null, 0), min(s.heap, s.id))

CallMax ==
    /\ op = "none"
    /\ \E a \in SeqsUpTo(ComparedOutputs, MaxItems) :
           LET s == MakeIter(a) IN
           Called("max", In(a, Fn("none"), Null, 0), max(s.heap, s.id))

CallMinMax ==
    /\ op = "none"
    /\ \E a \in SeqsUpTo(ComparedOutputs, MaxItems) :
           LET s == MakeIter(a) IN
           Called("min_max", In(a, Fn("none"), Null, 0), min_max(s.heap, s.id))

CallMinByKey ==
    /\ op = "none"
    /\ \E a \in SeqsUpTo(KeyedOutputs, MaxItems) :
         \E key_fn \in KeyFunctions(Len(a)) :
           LET s == MakeIter(a) IN
           Called("min", In(a, key_fn, Null, 0), min_by_key(s.heap, s.id, key_fn))

CallMaxByKey ==
    /\ op = "none"
    /\ \E a \in SeqsUpTo(KeyedOutputs, MaxItems) :
         \E key_fn \in KeyFunctions(Len(a)) :
           LET s == MakeIter(a) IN
           Called("max", In(a, key_fn, Null, 0), max_by_key(s.heap, s.id, key_fn))

CallMinMaxByKey ==
    /\ op = "none"
    /\ \E a \in SeqsUpTo(KeyedOutputs, MaxItems) :
         \E key_fn \in KeyFunctions(Len(a)) :
           LET s == MakeIter(a) IN
           Called("min_max", In(a, key_fn, Null, 0), min_max_by_key(s.heap, s.id, key_fn))

CallSkip ==
    /\ op = "none"
    /\ \E a \in SeqsUpTo(EagerOutputs, MaxItems) :
         \E n \in 0..MaxSkip :
           LET s == MakeIter(a) IN
           Called("skip", In(a, Fn("none"), Null, n), skip(s.heap, s.id, n))

NextEager ==
    \/ CallAll \/ CallAny \/ CallFind \/ CallPosition
    \/ CallCount \/ CallConsume \/ CallConsumeWith \/ CallLast
    \/ CallFold \/ CallSum \/ CallProduct
    \/ CallToList \/ CallToTuple
    \/ CallMin \/ CallMax \/ CallMinMax
    \/ CallMinByKey \/ CallMaxByKey \/ CallMinMaxByKey
    \/ CallSkip

SpecEager == InitEager /\ [][NextEager]_vars

(***************************************************************************)
(* Claims about the eager operations.                                      *)
(***************************************************************************)
Least(S) == CHOOSE i \in S : \A j \in S : i <= j
Greatest(S) == CHOOSE i \in S : \A j \in S : j <= i

\* The value an output stands for: a pair is the tuple of its two parts.
ItemValue(o) == IF o.tag = "ValuePair" THEN Tuple(<<o.k, o.v>>) ELSE o.v

ErrorsIn(s) == {i \in 1..Len(s) : s[i].tag = "Error"}

Keyed == input.function.name # "none"

\* C2: to_list(a.chain(b)) is to_list(a) followed by to_list(b): every item
\* of a in order, then every item of b in order; when a or b yields an
\* Error, the first of them is what to_list(a.chain(b)) fails with.
C2_ToListOfChain ==
    (op = "to_list" /\ input.chained) =>
        LET ia == MakeIter(input.a)
            ib == MakeIter(input.b)
            la == to_list(ia.heap, ia.id).result
            lb == to_list(ib.heap, ib.id).result
            ab == input.a \o input.b
        IN /\ ret.result = IF ~la.ok THEN la
                           ELSE IF ~lb.ok THEN lb
                           ELSE Ok(List(la.v.items \o lb.v.items))
           /\ ErrorsIn(ab) = {} =>
                ret.result = Ok(List([i \in 1..Len(ab) |-> ItemValue(ab[i])]))

\* A chain of two non-empty parts has been collected across the boundary.
C2_Witness ==
    /\ op = "to_list"
    /\ input.chained
    /\ Len(input.a) = 2
    /\ Len(input.b) = 2
    /\ input.a[2] # input.b[1]
    /\ ret.result.ok
    /\ Len(ret.result.v.items) = 4

\* The items of the call are values that `<` orders (numbers, or items with
\* numeric keys), so that min and max succeed.
KeyAt(i) ==
    IF Keyed THEN run_function(input.function, <<ItemValue(input.a[i])>>, i - 1)
    ELSE Ok(ItemValue(input.a[i]))

Ordered ==
    /\ input.a # <<>>
    /\ \A i \in 1..Len(input.a) :
          /\ input.a[i].tag = "Value"
          /\ KeyAt(i).ok
          /\ KeyAt(i).v.t = "Num"

RankAt(i) == KeyAt(i).v.n

Smallest == {i \in 1..Len(input.a) : \A j \in 1..Len(input.a) : RankAt(i) <= RankAt(j)}
Largest == {i \in 1..Len(input.a) : \A j \in 1..Len(input.a) : RankAt(j) <= RankAt(i)}

\* C3, as the specification states it: of the items that tie for the
\* smallest, min returns the earliest; of those that tie for the largest,
\* max returns the latest.
C3_TiesAsStated ==
    (op \in {"min", "max"} /\ Ordered) =>
        ret.result = Ok(input.a[IF op = "min" THEN Least(Smallest)
                                ELSE Greatest(Largest)].v)

\* C3, as the code has it: of the items that tie for the smallest, min
\* returns the latest; of those that tie for the largest, max returns the
\* earliest; with a key function and without.
C3_TiesAsCoded ==
    (op \in {"min", "max"} /\ Ordered) =>
        ret.result = Ok(input.a[IF op = "min" THEN Greatest(Smallest)
                                ELSE Least(Largest)].v)

\* min of 1, 1.0 has returned 1.0.
C3_Witness ==
    /\ op = "min"
    /\ ~Keyed
    /\ input.a = <<Value(I64(1)), Value(F64(1))>>
    /\ ret.result = Ok(F64(1))

\* C4: min_max returns Null for an empty iterable and otherwise the tuple of
\* what min and max return for the same arguments; it succeeds exactly when
\* both do, pulls every output once, calls the key function once per item,
\* and the tuple holds items of the source.
C4_MinMax ==
    op = "min_max" =>
        LET s == MakeIter(input.a)
            mn == IF Keyed THEN min_by_key(s.heap, s.id, input.function)
                  ELSE min(s.heap, s.id)
            mx == IF Keyed THEN max_by_key(s.heap, s.id, input.function)
                  ELSE max(s.heap, s.id)
            items == {ItemValue(input.a[i]) : i \in 1..Len(input.a) \ ErrorsIn(input.a)}
        IN /\ input.a = <<>> => ret.result = Ok(Null)
           /\ ret.result.ok <=> (mn.result.ok /\ mx.result.ok)
           /\ (ret.result.ok /\ input.a # <<>>) =>
                /\ ret.result = Ok(Tuple(<<mn.result.v, mx.result.v>>))
                /\ mn.result.v \in items
                /\ mx.result.v \in items
                /\ ret.pulled = Len(input.a) + 1
                /\ Keyed => ret.calls = [i \in 1..Len(input.a) |-> <<ItemValue(input.a[i])>>]

\* min_max of -2, 1, 2 by absolute value has returned (1, -2): the items,
\* not their keys.
C4_Witness ==
    /\ op = "min_max"
    /\ input.function = Fn("abs")
    /\ input.a = <<Value(I64(-2)), Value(I64(1)), Value(I64(2))>>
    /\ ret.result = Ok(Tuple(<<I64(1), I64(-2)>>))

\* The result of the i-th call an operation made of its function or operator.
CallResult(i) ==
    CASE op = "sum" -> run_binary_op("Add", ret.calls[i][1], ret.calls[i][2])
      [] op = "product" -> run_binary_op("Multiply", ret.calls[i][1], ret.calls[i][2])
      [] OTHER -> run_function(input.function, ret.calls[i], i - 1)

\* C5: fold calls f(acc, item) once per item in source order, acc being
\* init for the first call and the result of the call before for the others,
\* and returns the last result (init for an empty iterable); with the
\* function (acc, v) -> acc + v it returns what sum returns.
C5_FoldIsLeftFold ==
    op = "fold" =>
        LET s == MakeIter(input.a)
            n == Len(ret.calls)
        IN /\ \A i \in 1..n :
                /\ ret.calls[i][1] = IF i = 1 THEN input.init ELSE CallResult(i - 1).v
                /\ ret.calls[i][2] = ItemValue(input.a[i])
           /\ ret.result.ok =>
                /\ n = Len(input.a)
                /\ ret.result.v = IF n = 0 THEN input.init ELSE CallResult(n).v
           /\ input.function = Fn("add") =>
                ret.result = sum(s.heap, s.id, input.init).result

\* fold of three items from 5 with + has returned their sum.
C5_Witness ==
    /\ op = "fold"
    /\ input.function = Fn("add")
    /\ input.init = I64(5)
    /\ input.a = <<Value(I64(1)), Value(I64(2)), Value(I64(2))>>
    /\ ret.result = Ok(I64(10))
    /\ Len(ret.calls) = 3

\* What the predicate returns for the i-th item.
PredicateResult(i) == input.function.results[i]

\* The outputs at which all, any, find or position does not just go on: an
\* Error, or an item for which the predicate does not return `goesOn`.
Stops(goesOn) ==
    {i \in 1..Len(input.a) :
        input.a[i].tag = "Error" \/ PredicateResult(i) # Ok(Bool(goesOn))}

\* C6: all returns true exactly when the predicate returns true for every
\* item (so for an empty iterable); when the predicate returns false for the
\* k-th item, and true for those before, all returns false having pulled k
\* outputs and called the predicate k times.
C6_AllShortCircuits ==
    op = "all" =>
        /\ (ret.result = Ok(Bool(TRUE))) <=> (Stops(TRUE) = {})
        /\ Stops(TRUE) = {} =>
              /\ ret.pulled = Len(input.a) + 1
              /\ Len(ret.calls) = Len(input.a)
        /\ Stops(TRUE) # {} =>
              LET k == Least(Stops(TRUE)) IN
              (input.a[k].tag # "Error" /\ PredicateResult(k) = Ok(Bool(FALSE))) =>
                  /\ ret.result = Ok(Bool(FALSE))
                  /\ ret.pulled = k
                  /\ Len(ret.calls) = k
                  /\ ret.heap[1].pos = k + 1

\* all has returned false at the second of three items.
C6_Witness ==
    /\ op = "all"
    /\ Len(input.a) = 3
    /\ ErrorsIn(input.a) = {}
    /\ PredicateResult(1) = Ok(Bool(TRUE))
    /\ PredicateResult(2) = Ok(Bool(FALSE))
    /\ PredicateResult(3) = Ok(Bool(TRUE))
    /\ ret.result = Ok(Bool(FALSE))
    /\ ret.pulled = 2

PredicateTypeError == type_error("a Bool to be returned from the predicate", Null)

\* C7: in all, any, find and position, when the predicate returns a value
\* that is not a Bool for the k-th item (the operation having gone on until
\* then), the operation fails with the type error, having pulled k outputs
\* and called the predicate k times; and it fails with that error only then.
C7_NonBoolPredicate ==
    op \in {"all", "any", "find", "position"} =>
        LET stops == Stops(op = "all")
            nonBool == /\ stops # {}
                       /\ input.a[Least(stops)].tag # "Error"
                       /\ PredicateResult(Least(stops)) = Ok(Null)
        IN /\ nonBool =>
                /\ ret.result = PredicateTypeError
                /\ ret.pulled = Least(stops)
                /\ Len(ret.calls) = Least(stops)
                /\ ret.heap[1].pos = Least(stops) + 1
           /\ ret.result = PredicateTypeError => nonBool

\* position has failed at the second of three items.
C7_Witness ==
    /\ op = "position"
    /\ Len(input.a) = 3
    /\ ErrorsIn(input.a) = {}
    /\ PredicateResult(1) = Ok(Bool(FALSE))
    /\ PredicateResult(2) = Ok(Null)
    /\ PredicateResult(3) = Ok(Bool(TRUE))
    /\ ret.result = PredicateTypeError
    /\ ret.pulled = 2

EagerOps ==
    {"count", "consume", "consume_with", "last", "fold", "sum", "product",
     "to_list", "to_tuple"}

HasCallback == op \in {"consume_with", "fold", "sum", "product"}

\* C8: an eager operation fails exactly when an output is an Error or a call
\* of its function (or operator) fails. It fails at the first of these, the
\* k-th output, with that error, having pulled k outputs, none of those
\* before being an Error, and having called its function for every item
\* before the k-th with success, and for the k-th only when that call is
\* what failed. When it succeeds it has pulled every output, none is an
\* Error and every call succeeded.
C8_EagerShortCircuit ==
    (op \in EagerOps /\ ~input.chained) =>
        LET a == input.a
            k == ret.pulled
            n == Len(ret.calls)
        IN /\ ~HasCallback => n = 0
           /\ ret.result.ok =>
                /\ k = Len(a) + 1
                /\ ErrorsIn(a) = {}
                /\ HasCallback => n = Len(a)
                /\ \A i \in 1..n : CallResult(i).ok
           /\ ~ret.result.ok =>
                /\ k \in 1..Len(a)
                /\ ErrorsIn(a) \cap 1..(k - 1) = {}
                /\ ret.heap[1].pos = k + 1
                /\ IF a[k].tag = "Error"
                   THEN /\ ret.result = Err(a[k].e)
                        /\ n = IF HasCallback THEN k - 1 ELSE 0
                        /\ \A i \in 1..n : CallResult(i).ok
                   ELSE /\ HasCallback
                        /\ n = k
                        /\ \A i \in 1..(n - 1) : CallResult(i).ok
                        /\ ~CallResult(n).ok
                        /\ ret.result = Err(CallResult(n).e)

\* fold has failed in the call for the second of three items.
C8_Witness ==
    /\ op = "fold"
    /\ Len(input.a) = 3
    /\ ErrorsIn(input.a) = {}
    /\ input.function = Script(<<Ok(I64(7)), Err(RuntimeError("f")), Ok(I64(7))>>)
    /\ ret.result = Err(RuntimeError("f"))
    /\ ret.pulled = 2
    /\ Len(ret.calls) = 2

\* C9: skip(it, n) makes n calls of next, also when the source has returned
\* None before the n-th, and returns an iterator that yields the outputs of
\* the source after the n-th: none when the source has at most n, so that
\* to_tuple of it is the empty tuple. (An Error among the first n outputs is
\* returned as the failure of skip, as for every eager operation.)
C9_SkipPastEnd ==
    op = "skip" =>
        LET a == input.a
            n == input.n
            errors == ErrorsIn(a) \cap 1..n
        IN /\ errors = {} =>
                /\ ret.result = Ok(Iterator(1))
                /\ ret.pulled = n
                /\ Drain(ret.heap, 1, MaxItems + 1) = SubSeq(a, n + 1, Len(a))
                /\ n >= Len(a) => to_tuple(ret.heap, 1).result = Ok(Tuple(<<>>))
           /\ errors # {} =>
                /\ ret.result = Err(a[Least(errors)].e)
                /\ ret.pulled = Least(errors)

\* skip has been given an n beyond the end of a source that is not empty.
C9_Witness ==
    /\ op = "skip"
    /\ Len(input.a) = 2
    /\ input.n = 4
    /\ ret.result = Ok(Iterator(1))
    /\ ret.pulled = 4

\* C14: position returns the zero-based index of the first item for which
\* the predicate returns true (the number of items pulled before it) when
\* the predicate has returned false for every item before and no output
\* until then is an Error, and the items after it are not pulled; it returns
\* Null when the predicate returns false for every item; and it returns a
\* number or Null in no other case.
C14_Position ==
    op = "position" =>
        LET stops == Stops(FALSE)
            k == Least(stops)
            found == /\ stops # {}
                     /\ input.a[k].tag # "Error"
                     /\ PredicateResult(k) = Ok(Bool(TRUE))
        IN /\ found =>
                /\ ret.result = Ok(I64(k - 1))
                /\ ret.pulled = k
                /\ Len(ret.calls) = k
                /\ ret.heap[1].pos = k + 1
           /\ stops = {} =>
                /\ ret.result = Ok(Null)
                /\ ret.pulled = Len(input.a) + 1
                /\ Len(ret.calls) = Len(input.a)
           /\ ret.result.ok => (found \/ stops = {})

\* position has returned 1 for the second of three items, the third being a
\* match as well.
C14_Witness ==
    /\ op = "position"
    /\ Len(input.a) = 3
    /\ ErrorsIn(input.a) = {}
    /\ PredicateResult(1) = Ok(Bool(FALSE))
    /\ PredicateResult(2) = Ok(Bool(TRUE))
    /\ PredicateResult(3) = Ok(Bool(TRUE))
    /\ ret.result = Ok(I64(1))
    /\ ret.pulled = 2

(***************************************************************************)
(* The parser (parser/src/parser.rs): a recursive-descent parser over the  *)
(* lexer's token stream that pushes nodes into the AST arena and tracks,   *)
(* per frame, which identifiers are assigned locally and which are read as *)
(* non-locals.                                                             *)
(*                                                                         *)
(* The sources of this model are made of the tokens Id, Wildcard, Number,  *)
(* Whitespace, NewLine, NewLineIndented, Separator, Colon, Dot, Function,  *)
(* Yield, For, In, Range, RangeInclusive, ParenOpen, ParenClose,           *)
(* ListStart, ListEnd, MapStart, MapEnd, Match, Then, Import, From, Try,    *)
(* Catch, Finally, the assignment tokens and the binary operators; the     *)
(* branches of the parser that only other tokens reach (strings, if        *)
(* expressions and conditions, while, until, loop, export, debug, lookups) *)
(* are left out.                                                           *)
(* Spans are not modelled. A constant index is modelled by the constant it *)
(* indexes, the pool interning equal constants.                            *)
(***************************************************************************)
\* A token with its slice of the source; the slice of a NewLineIndented
\* token is the indentation that follows the line break.
Tok(t) == [t |-> t, s |-> ""]
IdTok(s) == [t |-> "Id", s |-> s]
NumberTok(s) == [t |-> "Number", s |-> s]

\* The lexer: peek_n, next, slice and line_number over the token stream;
\* "None" stands for the end of the stream.
peek_token_n(p, n) ==
    IF p.pos + n <= Len(p.tokens) THEN p.tokens[p.pos + n].t ELSE "None"

peek_token(p) == peek_token_n(p, 0)

consume_token(p) == IF p.pos <= Len(p.tokens) THEN [p EXCEPT !.pos = @ + 1] ELSE p

slice(p) == p.tokens[p.pos - 1].s

line_number(p) ==
    Cardinality({i \in 1..(p.pos - 1) : p.tokens[i].t \in {"NewLine", "NewLineIndented"}})

\* The indentation of the line of the i-th token: the one the last line
\* break up to it gives, a NewLine giving none.
RECURSIVE indent_at(_, _)
indent_at(tokens, i) ==
    IF i = 0 \/ tokens[i].t = "NewLine" THEN 0
    ELSE IF tokens[i].t = "NewLineIndented" THEN Len(tokens[i].s)
    ELSE indent_at(tokens, i - 1)

\* The lexer's current_indent is the indentation at the token consumed last,
\* its next_indent the indentation at the token that peek gives.
lexer_current_indent(p) == indent_at(p.tokens, p.pos - 1)

lexer_next_indent(p) ==
    indent_at(p.tokens, IF p.pos <= Len(p.tokens) THEN p.pos ELSE p.pos - 1)

\* The parser after the loop; the token the function returns is peek_token
\* of it.
RECURSIVE consume_until_next_token(_)
consume_until_next_token(p) ==
    IF peek_token(p) \in {"Whitespace", "NewLine", "NewLineIndented", "NewLineSkipped",
                          "CommentMulti", "CommentSingle"}
    THEN consume_until_next_token(consume_token(p))
    ELSE p

RECURSIVE skip_whitespace_and_peek(_)
skip_whitespace_and_peek(p) ==
    IF peek_token(p) \in {"Whitespace", "NewLineSkipped"}
    THEN skip_whitespace_and_peek(consume_token(p))
    ELSE p

\* skip_whitespace_and_next consumes the token that skip_whitespace_and_peek
\* stops at.
skip_whitespace_and_next(p) == consume_token(skip_whitespace_and_peek(p))

peek_until_next_token(p) == peek_token(consume_until_next_token(p))

\* An operator_precedence whose comparisons group left-to-right.
operator_precedence_ComparisonLeft(token) ==
    CASE token = "Or" -> Some(<<1, 2>>)
      [] token = "And" -> Some(<<3, 4>>)
      [] token \in {"Equal", "NotEqual"} -> Some(<<8, 7>>)
      [] token \in {"Greater", "GreaterOrEqual", "Less", "LessOrEqual"} -> Some(<<9, 10>>)
      [] token \in {"Add", "Subtract"} -> Some(<<11, 12>>)
      [] token \in {"Multiply", "Divide", "Modulo"} -> Some(<<13, 14>>)
      [] OTHER -> NoResult

operator_precedence(token) ==
    CASE token = "Or" -> Some(<<1, 2>>)
      [] token = "And" -> Some(<<3, 4>>)
      [] token \in {"Equal", "NotEqual"} -> Some(<<8, 7>>)
      [] token \in {"Greater", "GreaterOrEqual", "Less", "LessOrEqual"} -> Some(<<10, 9>>)
      [] token \in {"Add", "Subtract"} -> Some(<<11, 12>>)
      [] token \in {"Multiply", "Divide", "Modulo"} -> Some(<<13, 14>>)
      [] OTHER -> NoResult

token_is_whitespace(token) == token \in {"Whitespace", "NewLine", "NewLineIndented"}

\* The constant pool: add_string and add_f64 give the index of the constant,
\* a new one at the end of the pool when no equal constant is in it.
add_constant(p, c) ==
    IF \E i \in 1..Len(p.constants) : p.constants[i] = c THEN p
    ELSE [p EXCEPT !.constants = Append(@, c)]

add_string(p, s) == add_constant(p, <<"string", s>>)

add_f64(p, n) == add_constant(p, <<"f64", n>>)

\* The AST arena: push gives the index of the new node, counted from 0.
push(p, n) == [p |-> [p EXCEPT !.ast = Append(@, n)], index |-> Len(p.ast)]

node(p, index) == p.ast[index + 1]

reset_point(p) == Len(p.ast)

reset(p, point) == [p EXCEPT !.ast = SubSeq(@, 1, point)]

push_node(p, n) == push(p, n)

push_node_with_start_span(p, n) == push(p, n)

\* Frame::default()
Frame ==
    [top_level |-> FALSE,
     contains_yield |-> FALSE,
     ids_assigned_in_scope |-> {},
     accessed_non_locals |-> {},
     expression_id_accesses |-> [id \in {} |-> 0]]

\* A local_count that counts every assigned identifier.
local_count_CountsAssigned(f) == Cardinality(f.ids_assigned_in_scope)

\* A local_count that takes the number of the non-locals from the number of
\* the assigned identifiers, to no less than 0.
local_count_SubtractsSizes(f) ==
    IF Cardinality(f.ids_assigned_in_scope) >= Cardinality(f.accessed_non_locals)
    THEN Cardinality(f.ids_assigned_in_scope) - Cardinality(f.accessed_non_locals)
    ELSE 0

local_count(f) == Cardinality(f.ids_assigned_in_scope \ f.accessed_non_locals)

increment_expression_access_for_id(f, id) ==
    LET m == f.expression_id_accesses IN
    [f EXCEPT !.expression_id_accesses =
        [i \in DOMAIN m \cup {id} |->
            (IF i \in DOMAIN m THEN m[i] ELSE 0) + (IF i = id THEN 1 ELSE 0)]]

\* One increment for every non-local of the nested frame.
add_nested_accessed_non_locals(f, nested_frame) ==
    LET m == f.expression_id_accesses IN
    [f EXCEPT !.expression_id_accesses =
        [i \in DOMAIN m \cup nested_frame.accessed_non_locals |->
            (IF i \in DOMAIN m THEN m[i] ELSE 0)
            + (IF i \in nested_frame.accessed_non_locals THEN 1 ELSE 0)]]

SubtractOverflow == "attempt to subtract with overflow"

\* Err(()) when the id has no entry. An entry of 0 makes the usize
\* subtraction overflow, which panics in a build that checks overflow and
\* wraps the counter in one that does not: the frame is given as it was,
\* with the overflow told.
decrement_expression_access_for_id(f, id) ==
    LET m == f.expression_id_accesses IN
    IF id \notin DOMAIN m THEN [ok |-> FALSE, overflow |-> FALSE, frame |-> f]
    ELSE IF m[id] = 0 THEN [ok |-> TRUE, overflow |-> TRUE, frame |-> f]
    ELSE [ok |-> TRUE, overflow |-> FALSE,
          frame |-> [f EXCEPT !.expression_id_accesses[id] = @ - 1]]

finish_expressions(f) ==
    LET m == f.expression_id_accesses IN
    [f EXCEPT !.accessed_non_locals =
                  @ \cup {id \in DOMAIN m : m[id] > 0 /\ id \notin f.ids_assigned_in_scope},
              !.expression_id_accesses = [id \in {} |-> 0]]

\* frame() and frame_mut(): the frame on top of the stack.
frame(p) == p.frame_stack[Len(p.frame_stack)]

frame_mut(p, f) == [p EXCEPT !.frame_stack[Len(p.frame_stack)] = f]

\* Result<_, ParserError> together with the parser the call leaves.
POk(p, v) == [p |-> p, ok |-> TRUE, v |-> v]

PErr(p, error) == [p |-> p, ok |-> FALSE, error |-> error]

\* The record of the frames, kept for the claims: every frame that ends an
\* expression (finish_expressions) and every function frame that is popped.
Logged(p, event, n, before, after) ==
    [p EXCEPT !.log = Append(@, [event |-> event, depth |-> Len(p.frame_stack),
                                 node |-> n, before |-> before, after |-> after])]

\* The record of the lists, kept for the claims: every parser that
\* parse_list rewound, with the parser at the reset point before the
\* comprehension was tried.
Rewound(p, at_reset_point, primary_expression) ==
    [p EXCEPT !.lists = Append(@, [at_reset_point |-> at_reset_point,
                                   rewound |-> p,
                                   primary_expression |-> primary_expression])]

RECURSIVE parse_function(_)
RECURSIVE parse_line(_)
RECURSIVE parse_primary_expressions(_, _)
RECURSIVE parse_expression_start(_, _, _, _)
RECURSIVE parse_expression_continued(_, _, _, _)
RECURSIVE parse_assign_expression(_, _, _)
RECURSIVE parse_id_expression(_, _)
RECURSIVE parse_negatable_expression(_)
RECURSIVE parse_range(_, _)
RECURSIVE parse_term(_, _)
RECURSIVE parse_list(_, _)
RECURSIVE parse_for_loop(_, _)
RECURSIVE parse_nested_expression(_)
RECURSIVE parse_map_block(_, _, _)
RECURSIVE parse_map_inline(_, _)
RECURSIVE parse_indented_block(_, _, _)
RECURSIVE parse_indented_map_or_block(_, _)
RECURSIVE parse_match_expression(_)
RECURSIVE parse_import_expression(_)
RECURSIVE parse_try_expression(_)

\* A call of one of the parser's methods that call each other.
RECURSIVE Dispatch(_, _)
Dispatch(method, args) ==
    CASE method = "parse_function" -> parse_function(args[1])
      [] method = "parse_line" -> parse_line(args[1])
      [] method = "parse_primary_expressions" -> parse_primary_expressions(args[1], args[2])
      [] method = "parse_expression_start" ->
             parse_expression_start(args[1], args[2], args[3], args[4])
      [] method = "parse_expression_continued" ->
             parse_expression_continued(args[1], args[2], args[3], args[4])
      [] method = "parse_assign_expression" ->
             parse_assign_expression(args[1], args[2], args[3])
      [] method = "parse_id_expression" -> parse_id_expression(args[1], args[2])
      [] method = "parse_negatable_expression" -> parse_negatable_expression(args[1])
      [] method = "parse_range" -> parse_range(args[1], args[2])
      [] method = "parse_term" -> parse_term(args[1], args[2])
      [] method = "parse_list" -> parse_list(args[1], args[2])
      [] method = "parse_for_loop" -> parse_for_loop(args[1], args[2])
      [] method = "parse_nested_expression" -> parse_nested_expression(args[1])
      [] method = "parse_map_block" -> parse_map_block(args[1], args[2], args[3])
      [] method = "parse_map_inline" -> parse_map_inline(args[1], args[2])
      [] method = "parse_indented_block" -> parse_indented_block(args[1], args[2], args[3])
      [] method = "parse_indented_map_or_block" ->
             parse_indented_map_or_block(args[1], args[2])
      [] method = "parse_match_expression" -> parse_match_expression(args[1])
      [] method = "parse_import_expression" -> parse_import_expression(args[1])
      [] method = "parse_try_expression" -> parse_try_expression(args[1])

\* Let({e : name \in {value}}) is e with the name standing for the value,
\* which is computed once.
Let(S) == CHOOSE e \in S : TRUE

parse_id(p, allow_wildcards) ==
    Let({IF peek_token(p1) = "Id" \/ (peek_token(p1) = "Wildcard" /\ allow_wildcards)
         THEN Let({[p |-> add_string(p2, slice(p2)), v |-> Some(slice(p2))]
                   : p2 \in {consume_token(p1)}})
         ELSE [p |-> p1, v |-> NoResult]
         : p1 \in {skip_whitespace_and_peek(p)}})

parse_primary_expression_with_lhs(p, lhs) ==
    Dispatch("parse_expression_start", <<p, lhs, 0, TRUE>>)

parse_primary_expression(p) == Dispatch("parse_expression_start", <<p, NoResult, 0, TRUE>>)

parse_non_primary_expression(p) ==
    Dispatch("parse_expression_start", <<p, NoResult, 0, FALSE>>)

\* parse_main_block: the loop over the lines of the source
RECURSIVE parse_main_block_loop(_, _)
parse_main_block_loop(p, body) ==
    Let({IF peek_token(p1) = "None" THEN POk(p1, body)
         ELSE Let({IF ~expression.ok THEN expression
                   ELSE IF expression.v.some
                   THEN parse_main_block_loop(expression.p, Append(body, expression.v.v))
                   ELSE PErr(expression.p, "ExpectedExpressionInMainBlock")
                   : expression \in {Dispatch("parse_line", <<p1>>)}})
         : p1 \in {consume_until_next_token(p)}})

parse_main_block(p) ==
    Let({IF ~body.ok THEN body
         ELSE Let({POk([result.p EXCEPT !.frame_stack = SubSeq(@, 1, Len(@) - 1)],
                       result.index)
                   : result \in {push(body.p, [node |-> "MainBlock",
                                               body |-> body.v,
                                               local_count |-> local_count(frame(body.p))])}})
         : body \in {parse_main_block_loop(
                         [p EXCEPT !.frame_stack = Append(@, [Frame EXCEPT !.top_level = TRUE])],
                         <<>>)}})

\* Parser::parse: the AST with its entry point, or the error.
parse(source) ==
    Let({IF main_block.ok
         THEN [ok |-> TRUE, error |-> "none", ast |-> main_block.p.ast,
               constants |-> main_block.p.constants,
               entry_point |-> main_block.v, frame_stack |-> main_block.p.frame_stack,
               log |-> main_block.p.log, lists |-> main_block.p.lists]
         ELSE [ok |-> FALSE, error |-> main_block.error, ast |-> main_block.p.ast,
               constants |-> main_block.p.constants,
               entry_point |-> -1, frame_stack |-> main_block.p.frame_stack,
               log |-> main_block.p.log, lists |-> main_block.p.lists]
         : main_block \in {parse_main_block([tokens |-> source, pos |-> 1, ast |-> <<>>,
                                             constants |-> <<>>,
                                             frame_stack |-> <<>>, log |-> <<>>,
                                             lists |-> <<>>])}})

\* parse_function: the loop over the arguments
RECURSIVE parse_function_args(_, _)
parse_function_args(p, args) ==
    Let({IF id.v.some THEN parse_function_args(id.p, Append(args, id.v.v))
         ELSE [p |-> id.p, args |-> args]
         : id \in {parse_id(consume_until_next_token(p), TRUE)}})

Elements(s) == {s[i] : i \in 1..Len(s)}

\* parse_function: whether the body is an indented map or block, which it
\* is when the line ends after the arguments and a deeper one follows.
function_body_is_indented(p, current_indent) ==
    /\ peek_token(skip_whitespace_and_peek(p)) = "NewLineIndented"
    /\ lexer_next_indent(skip_whitespace_and_peek(p)) > current_indent

\* parse_function: the body of the function, the rest of the line when it
\* is not indented.
parse_function_block(p, current_indent) ==
    IF function_body_is_indented(p, current_indent)
    THEN Dispatch("parse_indented_map_or_block", <<skip_whitespace_and_peek(p), current_indent>>)
    ELSE Dispatch("parse_line", <<skip_whitespace_and_peek(p)>>)

\* parse_function: the error of a function without a body
NoFunctionBody(p, current_indent) ==
    IF function_body_is_indented(p, current_indent) THEN "FunctionParseFailure"
    ELSE "ExpectedFunctionBody"

\* A parse_function that hands the yield of the function on to the frame
\* around it.
parse_function_body_YieldPropagates(p, args, current_indent) ==
    Let({IF ~body.ok THEN body
         ELSE IF ~body.v.some THEN PErr(body.p, NoFunctionBody(p, current_indent))
         ELSE Let({Let({Let({POk(Logged(result.p, "function", result.index,
                                        function_frame, frame(p2)),
                                 Some(result.index))
                             : result \in
                                 {push(p2, [node |-> "Function",
                                            args |-> args,
                                            local_count |-> local_count(function_frame),
                                            accessed_non_locals |->
                                                function_frame.accessed_non_locals,
                                            body |-> body.v.v,
                                            is_generator |-> function_frame.contains_yield])}})
                        : p2 \in {frame_mut(p1, [add_nested_accessed_non_locals(
                                                     frame(p1), function_frame)
                                                 EXCEPT !.contains_yield =
                                                     @ \/ function_frame.contains_yield])}})
                   : function_frame \in {frame(body.p)},
                     p1 \in {[body.p EXCEPT !.frame_stack = SubSeq(@, 1, Len(@) - 1)]}})
         : body \in {parse_function_block(
                         [p EXCEPT !.frame_stack =
                             Append(@, [Frame EXCEPT !.ids_assigned_in_scope =
                                                         Elements(args)])],
                         current_indent)}})

\* A parse_function that does not tell the frame around it of the
\* non-locals of the function.
parse_function_body_KeepsNonLocals(p, args, current_indent) ==
    Let({IF ~body.ok THEN body
         ELSE IF ~body.v.some THEN PErr(body.p, NoFunctionBody(p, current_indent))
         ELSE Let({Let({POk(Logged(result.p, "function", result.index,
                                   function_frame, frame(p1)),
                            Some(result.index))
                        : result \in
                            {push(p1, [node |-> "Function",
                                       args |-> args,
                                       local_count |-> local_count(function_frame),
                                       accessed_non_locals |->
                                           function_frame.accessed_non_locals,
                                       body |-> body.v.v,
                                       is_generator |-> function_frame.contains_yield])}})
                   : function_frame \in {frame(body.p)},
                     p1 \in {[body.p EXCEPT !.frame_stack = SubSeq(@, 1, Len(@) - 1)]}})
         : body \in {parse_function_block(
                         [p EXCEPT !.frame_stack =
                             Append(@, [Frame EXCEPT !.ids_assigned_in_scope =
                                                         Elements(args)])],
                         current_indent)}})

\* A parse_function that leaves the frame of the function on the stack.
parse_function_body_KeepsFrame(p, args, current_indent) ==
    Let({IF ~body.ok THEN body
         ELSE IF ~body.v.some THEN PErr(body.p, NoFunctionBody(p, current_indent))
         ELSE Let({Let({Let({POk(Logged(result.p, "function", result.index,
                                        function_frame, frame(p2)),
                                 Some(result.index))
                             : result \in
                                 {push(p2, [node |-> "Function",
                                            args |-> args,
                                            local_count |-> local_count(function_frame),
                                            accessed_non_locals |->
                                                function_frame.accessed_non_locals,
                                            body |-> body.v.v,
                                            is_generator |-> function_frame.contains_yield])}})
                        : p2 \in {frame_mut(p1, add_nested_accessed_non_locals(
                                                    frame(p1), function_frame))}})
                   : function_frame \in {frame(body.p)},
                     p1 \in {body.p}})
         : body \in {parse_function_block(
                         [p EXCEPT !.frame_stack =
                             Append(@, [Frame EXCEPT !.ids_assigned_in_scope =
                                                         Elements(args)])],
                         current_indent)}})

\* parse_function from the arguments on: the frame of the function is
\* pushed, the body is parsed, the frame is popped.
parse_function_body(p, args, current_indent) ==
    Let({IF ~body.ok THEN body
         ELSE IF ~body.v.some THEN PErr(body.p, NoFunctionBody(p, current_indent))
         ELSE Let({Let({Let({POk(Logged(result.p, "function", result.index,
                                        function_frame, frame(p2)),
                                 Some(result.index))
                             : result \in
                                 {push(p2, [node |-> "Function",
                                            args |-> args,
                                            local_count |-> local_count(function_frame),
                                            accessed_non_locals |->
                                                function_frame.accessed_non_locals,
                                            body |-> body.v.v,
                                            is_generator |-> function_frame.contains_yield])}})
                        : p2 \in {frame_mut(p1, add_nested_accessed_non_locals(
                                                    frame(p1), function_frame))}})
                   : function_frame \in {frame(body.p)},
                     p1 \in {[body.p EXCEPT !.frame_stack = SubSeq(@, 1, Len(@) - 1)]}})
         : body \in {parse_function_block(
                         [p EXCEPT !.frame_stack =
                             Append(@, [Frame EXCEPT !.ids_assigned_in_scope =
                                                         Elements(args)])],
                         current_indent)}})

parse_function(p) ==
    IF peek_token(skip_whitespace_and_peek(p)) # "Function"
    THEN PErr(skip_whitespace_and_peek(p), "FunctionParseFailure")
    ELSE Let({IF peek_token(skip_whitespace_and_peek(a.p)) # "Function"
              THEN PErr(consume_token(skip_whitespace_and_peek(a.p)),
                        "ExpectedFunctionArgsEnd")
              ELSE parse_function_body(consume_token(skip_whitespace_and_peek(a.p)),
                                       a.args,
                                       lexer_current_indent(skip_whitespace_and_peek(p)))
              : a \in {parse_function_args(consume_token(skip_whitespace_and_peek(p)),
                                           <<>>)}})

\* Of the parsers that parse_line tries, parse_for_loop and
\* parse_primary_expressions are reached by the tokens of the model.
parse_line(p) ==
    Let({IF ~for_loop.ok THEN for_loop
         ELSE Let({IF ~result.ok \/ ~result.v.some THEN result
                   ELSE Let({POk(Logged(frame_mut(result.p, after), "finish", result.v.v,
                                        frame(result.p), after),
                                 result.v)
                             : after \in {finish_expressions(frame(result.p))}})
                   : result \in {IF for_loop.v.some THEN for_loop
                                 ELSE Dispatch("parse_primary_expressions",
                                               <<for_loop.p, FALSE>>)}})
         : for_loop \in {Dispatch("parse_for_loop", <<p, NoResult>>)}})

\* parse_primary_expressions after the separator: what the loop does at the
\* start of an indented line, with the indentation it expects from then on.
parse_primary_expressions_indent(p, current_indent, expected_indent) ==
    IF peek_token(p) # "NewLineIndented"
    THEN [p |-> p, todo |-> "go on", expected_indent |-> expected_indent]
    ELSE Let({IF expected_indent.some
              THEN [p |-> p1,
                    todo |-> IF lexer_next_indent(p1) < expected_indent.v THEN "break"
                             ELSE IF lexer_next_indent(p1) = expected_indent.v THEN "go on"
                             ELSE "UnexpectedIndentation",
                    expected_indent |-> expected_indent]
              ELSE IF lexer_next_indent(p1) <= current_indent
              THEN [p |-> p1, todo |-> "break", expected_indent |-> expected_indent]
              ELSE [p |-> p1, todo |-> "go on",
                    expected_indent |-> Some(lexer_next_indent(p1))]
              : p1 \in {consume_until_next_token(p)}})

\* parse_primary_expressions after the loop
parse_primary_expressions_end(p, expressions) ==
    IF Len(expressions) = 1 THEN POk(p, Some(expressions[1]))
    ELSE Let({POk(result.p, Some(result.index))
              : result \in {push_node(p, [node |-> "Expressions",
                                          expressions |-> expressions])}})

\* parse_primary_expressions: the loop over the separators
RECURSIVE parse_primary_expressions_loop(_, _, _, _)
parse_primary_expressions_loop(p, expressions, current_indent, expected_indent) ==
    Let({IF peek_token(p1) # "Separator" THEN parse_primary_expressions_end(p1, expressions)
         ELSE Let({IF line.todo = "break"
                   THEN parse_primary_expressions_end(line.p, expressions)
                   ELSE IF line.todo # "go on" THEN PErr(line.p, line.todo)
                   ELSE Let({IF ~next_expression.ok THEN next_expression
                             ELSE IF ~next_expression.v.some
                             THEN parse_primary_expressions_loop(
                                      next_expression.p, expressions, current_indent,
                                      line.expected_indent)
                             ELSE IF node(next_expression.p, next_expression.v.v).node
                                        \in {"Assign", "MultiAssign", "For", "While", "Until"}
                             THEN next_expression
                             ELSE parse_primary_expressions_loop(
                                      next_expression.p,
                                      Append(expressions, next_expression.v.v),
                                      current_indent, line.expected_indent)
                             : next_expression \in
                                 {parse_primary_expression_with_lhs(line.p,
                                                                    Some(expressions))}})
                   : line \in {parse_primary_expressions_indent(
                                   skip_whitespace_and_peek(consume_token(p1)),
                                   current_indent, expected_indent)}})
         : p1 \in {skip_whitespace_and_peek(p)}})

\* parse_primary_expressions before the first expression: the indentation
\* that may start the expressions of an assignment or a yield. The result is
\* there when the function returns from here, with nothing or with a map
\* block.
parse_primary_expressions_initial(p, allow_initial_indentation) ==
    Let({IF ~allow_initial_indentation
         THEN [p |-> p, returns |-> FALSE, expected_indent |-> NoResult]
         ELSE IF peek_token(p1) # "NewLineIndented"
         THEN [p |-> p1, returns |-> FALSE, expected_indent |-> NoResult]
         ELSE Let({IF lexer_current_indent(p2) <= lexer_current_indent(p)
                   THEN [p |-> p2, returns |-> TRUE, result |-> POk(p2, NoResult)]
                   ELSE Let({IF ~map_block.ok \/ map_block.v.some
                             THEN [p |-> map_block.p, returns |-> TRUE, result |-> map_block]
                             ELSE [p |-> map_block.p, returns |-> FALSE,
                                   expected_indent |-> Some(lexer_current_indent(p2))]
                             : map_block \in
                                 {Dispatch("parse_map_block",
                                           <<p2, lexer_current_indent(p),
                                             Some(lexer_current_indent(p2))>>)}})
                   : p2 \in {consume_until_next_token(p1)}})
         : p1 \in {skip_whitespace_and_peek(p)}})

parse_primary_expressions(p, allow_initial_indentation) ==
    Let({IF initial.returns THEN initial.result
         ELSE IF ~first.ok \/ ~first.v.some THEN first
         ELSE parse_primary_expressions_loop(first.p, <<first.v.v>>,
                                             lexer_current_indent(p),
                                             initial.expected_indent)
         : initial \in {parse_primary_expressions_initial(p, allow_initial_indentation)},
           first \in {parse_primary_expression(
                          parse_primary_expressions_initial(
                              p, allow_initial_indentation).p)}})

\* parse_expression_start after its first expression: a range, or the
\* expression continued on the line it started on.
parse_expression_start_end(p, lhs, min_precedence, primary_expression, expression) ==
    IF ~expression.ok THEN expression
    ELSE IF peek_token(expression.p) \in {"Range", "RangeInclusive"}
    THEN Dispatch("parse_range", <<expression.p, expression.v>>)
    ELSE IF ~expression.v.some THEN expression
    ELSE IF line_number(p) = line_number(expression.p)
    THEN Dispatch("parse_expression_continued",
                  <<expression.p, (IF lhs.some THEN lhs.v ELSE <<>>) \o <<expression.v.v>>,
                    min_precedence, primary_expression>>)
    ELSE expression

parse_expression_start(p, lhs, min_precedence, primary_expression) ==
    Let({IF ~negatable.ok \/ negatable.v.some
         THEN parse_expression_start_end(p, lhs, min_precedence, primary_expression,
                                         negatable)
         ELSE Let({parse_expression_start_end(
                       p, lhs, min_precedence, primary_expression,
                       IF ~id_expression.ok \/ id_expression.v.some THEN id_expression
                       ELSE Dispatch("parse_term", <<id_expression.p, primary_expression>>))
                   : id_expression \in
                       {Dispatch("parse_id_expression", <<negatable.p, primary_expression>>)}})
         : negatable \in {Dispatch("parse_negatable_expression", <<p>>)}})

AssignOp(token) ==
    CASE token = "Assign" -> "Equal"
      [] token = "AssignAdd" -> "Add"
      [] token = "AssignSubtract" -> "Subtract"
      [] token = "AssignMultiply" -> "Multiply"
      [] token = "AssignDivide" -> "Divide"
      [] token = "AssignModulo" -> "Modulo"

\* push_ast_op: the AstOp has the name of the token.
push_ast_op(p, token, lhs, rhs) ==
    push_node(p, [node |-> "BinaryOp", op |-> token, lhs |-> lhs, rhs |-> rhs])

\* parse_expression_continued at a binary operator: the map block that may
\* follow the operator.
binary_op_map_block(p) ==
    Dispatch("parse_map_block",
             <<consume_token(p), lexer_current_indent(consume_token(p)), NoResult>>)

\* parse_expression_continued at a binary operator: the right-hand side is
\* a map block, or an expression parsed with the operator's right priority,
\* and the expression goes on from the BinaryOp.
parse_binary_op(p, last_lhs, token, priority, min_precedence, primary_expression) ==
    Let({IF ~rhs.ok THEN rhs
         ELSE IF ~rhs.v.some THEN PErr(rhs.p, "ExpectedRhsExpression")
         ELSE Let({Dispatch("parse_expression_continued",
                            <<op_node.p, <<op_node.index>>, min_precedence,
                              primary_expression>>)
                   : op_node \in {push_ast_op(rhs.p, token, last_lhs, rhs.v.v)}})
         : rhs \in {IF ~binary_op_map_block(p).ok \/ binary_op_map_block(p).v.some
                    THEN binary_op_map_block(p)
                    ELSE Dispatch("parse_expression_start",
                                  <<binary_op_map_block(p).p, NoResult, priority[2],
                                    primary_expression>>)}})

parse_expression_continued(p, lhs, min_precedence, primary_expression) ==
    IF lhs = <<>> THEN PErr(p, "MissingContinuedExpressionLhs")
    ELSE
    Let({LET last_lhs == lhs[Len(lhs)]
             next == peek_token(p1)
             priority == operator_precedence(peek_token(p1))
         IN
         IF next \in {"NewLine", "NewLineIndented"}
         THEN IF operator_precedence(peek_until_next_token(p1)).some
              THEN Dispatch("parse_expression_continued",
                            <<consume_until_next_token(p1), lhs, min_precedence,
                              primary_expression>>)
              ELSE POk(p1, Some(last_lhs))
         ELSE IF next = "For" /\ primary_expression
         THEN Dispatch("parse_for_loop", <<p1, Some(lhs)>>)
         ELSE IF next \in {"Assign", "AssignAdd", "AssignSubtract", "AssignMultiply",
                           "AssignDivide", "AssignModulo"}
         THEN Dispatch("parse_assign_expression", <<p1, lhs, AssignOp(next)>>)
         ELSE IF /\ priority.some
                 /\ token_is_whitespace(peek_token_n(p1, 1))
                 /\ priority.v[1] >= min_precedence
         THEN parse_binary_op(p1, last_lhs, next, priority.v, min_precedence,
                              primary_expression)
         ELSE POk(p1, Some(last_lhs))
         : p1 \in {skip_whitespace_and_peek(p)}})

\* parse_assign_expression: the loop over the left-hand sides, as one that
\* takes every assignment for a plain `=`.
RECURSIVE parse_assign_targets_EveryOpAssigns(_, _, _, _)
parse_assign_targets_EveryOpAssigns(p, lhs, assign_op, targets) ==
    IF Len(targets) = Len(lhs) THEN POk(p, targets)
    ELSE
    LET lhs_expression == lhs[Len(targets) + 1]
        n == node(p, lhs[Len(targets) + 1])
        target == [target_index |-> lhs[Len(targets) + 1], scope |-> "Local"]
    IN
    IF n.node = "Id"
    THEN Let({IF ~d.ok THEN PErr(p, "UnexpectedIdInExpression")
              ELSE IF d.overflow THEN PErr(p, SubtractOverflow)
              ELSE parse_assign_targets_EveryOpAssigns(
                       frame_mut(p, [d.frame EXCEPT !.ids_assigned_in_scope = @ \cup {n.id}]),
                       lhs, assign_op, Append(targets, target))
              : d \in {decrement_expression_access_for_id(frame(p), n.id)}})
    ELSE IF n.node = "Lookup"
    THEN parse_assign_targets_EveryOpAssigns(p, lhs, assign_op, Append(targets, target))
    ELSE PErr(p, "ExpectedAssignmentTarget")

\* parse_assign_expression: the loop over the left-hand sides. The parse
\* ends where a counter overflows, with the message of the panic for error.
RECURSIVE parse_assign_targets(_, _, _, _)
parse_assign_targets(p, lhs, assign_op, targets) ==
    IF Len(targets) = Len(lhs) THEN POk(p, targets)
    ELSE
    LET lhs_expression == lhs[Len(targets) + 1]
        n == node(p, lhs[Len(targets) + 1])
        target == [target_index |-> lhs[Len(targets) + 1], scope |-> "Local"]
    IN
    IF n.node = "Id" /\ assign_op = "Equal"
    THEN Let({IF ~d.ok THEN PErr(p, "UnexpectedIdInExpression")
              ELSE IF d.overflow THEN PErr(p, SubtractOverflow)
              ELSE parse_assign_targets(
                       frame_mut(p, [d.frame EXCEPT !.ids_assigned_in_scope = @ \cup {n.id}]),
                       lhs, assign_op, Append(targets, target))
              : d \in {decrement_expression_access_for_id(frame(p), n.id)}})
    ELSE IF n.node \in {"Id", "Lookup"}
    THEN parse_assign_targets(p, lhs, assign_op, Append(targets, target))
    ELSE PErr(p, "ExpectedAssignmentTarget")

parse_assign_expression(p, lhs, assign_op) ==
    Let({IF ~targets.ok THEN targets
         ELSE IF targets.v = <<>> THEN PErr(targets.p, "MissingAssignmentTarget")
         ELSE Let({IF ~rhs.ok THEN rhs
                   ELSE IF ~rhs.v.some THEN PErr(rhs.p, "ExpectedRhsExpression")
                   ELSE Let({POk(result.p, Some(result.index))
                             : result \in
                                 {push_node(rhs.p,
                                            IF Len(targets.v) = 1
                                            THEN [node |-> "Assign", target |-> targets.v[1],
                                                  op |-> assign_op, expression |-> rhs.v.v]
                                            ELSE [node |-> "MultiAssign",
                                                  targets |-> targets.v,
                                                  expressions |-> rhs.v.v])}})
                   : rhs \in {Dispatch("parse_primary_expressions", <<targets.p, TRUE>>)}})
         : targets \in {parse_assign_targets(consume_token(p), lhs, assign_op, <<>>)}})

\* parse_id_expression: the loop over the arguments of a call
RECURSIVE parse_call_args(_, _, _)
parse_call_args(p, args, current_line) ==
    IF line_number(p) # current_line THEN POk(p, args)
    ELSE Let({IF ~expression.ok THEN expression
              ELSE IF expression.v.some
              THEN parse_call_args(expression.p, Append(args, expression.v.v), current_line)
              ELSE POk(expression.p, args)
              : expression \in {parse_non_primary_expression(p)}})

\* A lookup (a `.`, `[` or `(` right after the root) is not part of the
\* model: it is given as a failure of the parse.
parse_lookup(p, root, primary_expression) == PErr(p, "Lookup")

next_token_is_lookup_start(p) == peek_token(p) \in {"Dot", "ListStart", "ParenOpen"}

\* parse_id_expression at the whitespace after the id of a primary
\* expression: the expressions that follow on the line are the arguments
\* of a call.
parse_call(p, id_index) ==
    Let({IF ~expression.ok THEN expression
         ELSE IF ~expression.v.some THEN POk(expression.p, Some(id_index))
         ELSE Let({IF ~args.ok THEN args
                   ELSE Let({POk(result.p, Some(result.index))
                             : result \in
                                 {push_node_with_start_span(
                                      args.p, [node |-> "Call", function |-> id_index,
                                               args |-> args.v])}})
                   : args \in {parse_call_args(expression.p, <<expression.v.v>>,
                                               line_number(p))}})
         : expression \in {parse_non_primary_expression(p)}})

parse_id_expression(p, primary_expression) ==
    Let({IF ~id.v.some THEN POk(id.p, NoResult)
         ELSE Let({IF peek_token(id_index.p) = "Whitespace" /\ primary_expression
                   THEN parse_call(consume_token(id_index.p), id_index.index)
                   ELSE IF peek_token(id_index.p) \in {"ParenOpen", "ListStart", "Dot"}
                   THEN parse_lookup(id_index.p, id_index.index, primary_expression)
                   ELSE POk(id_index.p, Some(id_index.index))
                   : id_index \in
                       {push_node(frame_mut(id.p, increment_expression_access_for_id(
                                                      frame(id.p), id.v.v)),
                                  [node |-> "Id", id |-> id.v.v])}})
         : id \in {parse_id(p, primary_expression)}})

parse_negatable_expression(p) ==
    Let({IF peek_token(p1) # "Subtract" THEN POk(p1, NoResult)
         ELSE IF peek_token_n(p1, 1) = "Whitespace" THEN POk(p1, NoResult)
         ELSE Let({IF ~expression.ok THEN expression
                   ELSE IF ~expression.v.some
                   THEN PErr(expression.p, "ExpectedNegatableExpression")
                   ELSE Let({POk(result.p, Some(result.index))
                             : result \in
                                 {push_node(expression.p,
                                            [node |-> "Negate",
                                             expression |-> expression.v.v])}})
                   : expression \in
                       {Let({CASE peek_token(p2) = "Id" ->
                                      Dispatch("parse_id_expression", <<p2, FALSE>>)
                               [] peek_token(p2) = "ParenOpen" ->
                                      Dispatch("parse_nested_expression", <<p2>>)
                               [] OTHER -> POk(p2, NoResult)
                             : p2 \in {consume_token(p1)}})}})
         : p1 \in {skip_whitespace_and_peek(p)}})

parse_range(p, lhs) ==
    IF peek_token(p) \notin {"Range", "RangeInclusive"} THEN POk(p, NoResult)
    ELSE
    Let({IF ~rhs.ok THEN rhs
         ELSE LET inclusive == peek_token(p) = "RangeInclusive" IN
              Let({POk(result.p, Some(result.index))
                   : result \in
                       {push_node(rhs.p,
                            CASE lhs.some /\ rhs.v.some ->
                                     [node |-> "Range", start |-> lhs.v, end |-> rhs.v.v,
                                      inclusive |-> inclusive]
                              [] lhs.some /\ ~rhs.v.some ->
                                     [node |-> "RangeFrom", start |-> lhs.v]
                              [] ~lhs.some /\ rhs.v.some ->
                                     [node |-> "RangeTo", end |-> rhs.v.v,
                                      inclusive |-> inclusive]
                              [] OTHER -> [node |-> "RangeFull"])}})
         : rhs \in {Dispatch("parse_term", <<consume_token(p), FALSE>>)}})

\* Of the tokens that start a term, those of the model.
parse_term(p, primary_expression) ==
    Let({LET token == peek_token(p1) IN
         CASE token = "ParenOpen" -> Dispatch("parse_nested_expression", <<p1>>)
           [] token = "Number" ->
                  Let({POk(result.p, Some(result.index))
                       : result \in
                           {IF slice(p2) = "0" THEN push_node(p2, [node |-> "Number0"])
                            ELSE IF slice(p2) = "1" THEN push_node(p2, [node |-> "Number1"])
                            ELSE push_node(add_f64(p2, slice(p2)),
                                           [node |-> "Number", constant |-> slice(p2)])
                            : p2 \in {consume_token(p1)}}})
           [] token = "Id" -> Dispatch("parse_id_expression", <<p1, primary_expression>>)
           [] token = "ListStart" -> Dispatch("parse_list", <<p1, primary_expression>>)
           [] token = "MapStart" -> Dispatch("parse_map_inline", <<p1, primary_expression>>)
           [] token = "Match" -> Dispatch("parse_match_expression", <<p1>>)
           [] token = "Function" -> Dispatch("parse_function", <<p1>>)
           [] token \in {"From", "Import"} -> Dispatch("parse_import_expression", <<p1>>)
           [] token = "Try" /\ primary_expression ->
                  Dispatch("parse_try_expression", <<p1>>)
           [] token = "NewLineIndented" ->
                  Dispatch("parse_map_block", <<p1, lexer_current_indent(p), NoResult>>)
           [] token = "Yield" ->
                  Let({IF ~expression.ok THEN expression
                       ELSE IF ~expression.v.some
                       THEN PErr(expression.p, "ExpectedExpression")
                       ELSE Let({POk(frame_mut(result.p,
                                               [frame(result.p) EXCEPT
                                                   !.contains_yield = TRUE]),
                                     Some(result.index))
                                 : result \in
                                     {push_node(expression.p,
                                                [node |-> "Yield",
                                                 expression |-> expression.v.v])}})
                       : expression \in
                           {Dispatch("parse_primary_expressions",
                                     <<consume_token(p1), TRUE>>)}})
           [] OTHER -> POk(p1, NoResult)
         : p1 \in {skip_whitespace_and_peek(p)}})

\* parse_list: the loop over the entries of a plain list
RECURSIVE parse_list_entries(_, _)
parse_list_entries(p, entries) ==
    Let({IF peek_token(p1) = "ListEnd" THEN POk(p1, entries)
         ELSE Let({IF ~term.ok THEN term
                   ELSE IF ~term.v.some THEN POk(term.p, entries)
                   ELSE IF peek_token(term.p) \in {"Range", "RangeInclusive"}
                   THEN Let({IF ~range.ok THEN range
                             ELSE IF ~range.v.some THEN PErr(range.p, "RangeParseFailure")
                             ELSE parse_list_entries(range.p, Append(entries, range.v.v))
                             : range \in {Dispatch("parse_range", <<term.p, term.v>>)}})
                   ELSE parse_list_entries(term.p, Append(entries, term.v.v))
                   : term \in {Dispatch("parse_term", <<p1, FALSE>>)}})
         : p1 \in {consume_until_next_token(p)}})

\* parse_list after the entries: the end of the list and the List node.
parse_list_end(entries, primary_expression) ==
    IF ~entries.ok THEN entries
    ELSE Let({IF peek_token(p2) # "ListEnd" THEN PErr(consume_token(p2), "ExpectedListEnd")
              ELSE Let({IF next_token_is_lookup_start(list_node.p)
                        THEN parse_lookup(list_node.p, list_node.index, primary_expression)
                        ELSE POk(list_node.p, Some(list_node.index))
                        : list_node \in
                            {push_node_with_start_span(
                                 consume_token(p2),
                                 [node |-> "List", entries |-> entries.v])}})
              : p2 \in {consume_until_next_token(entries.p)}})

\* parse_list at the start: the expression that a loop may follow, and the
\* loop when it does.
parse_list_comprehension(p) ==
    Let({IF ~expression.ok \/ ~expression.v.some THEN expression
         ELSE IF node(expression.p, expression.v.v).node \in {"For", "While", "Until"}
         THEN expression
         ELSE Dispatch("parse_for_loop", <<expression.p, Some(<<expression.v.v>>)>>)
         : expression \in {parse_primary_expression(p)}})

\* A parse_list that, when no loop follows the expression it tried, resets
\* the AST and keeps that expression as the entry of the list.
parse_list_KeepsSpeculated(p, primary_expression) ==
    Let({LET ast_reset_point == reset_point(p1) IN
         Let({Let({parse_list_end(entries, primary_expression)
                   : entries \in
                       {IF ~list_comprehension.ok THEN list_comprehension
                        ELSE IF list_comprehension.v.some
                        THEN POk(list_comprehension.p, <<list_comprehension.v.v>>)
                        ELSE IF expression.ok /\ expression.v.some
                        THEN POk(reset(list_comprehension.p, ast_reset_point),
                                 <<expression.v.v>>)
                        ELSE parse_list_entries(
                                 reset(list_comprehension.p, ast_reset_point), <<>>)}})
              : list_comprehension \in {parse_list_comprehension(p1)},
                expression \in {parse_primary_expression(p1)}})
         : p1 \in {consume_token(p)}})

\* A parse_list that rewinds the lexer and leaves the AST as the
\* comprehension it tried left it.
parse_list_KeepsNodes(p, primary_expression) ==
    Let({LET lexer_reset_state == p1.pos IN
         Let({Let({parse_list_end(entries, primary_expression)
                   : entries \in
                       {IF ~list_comprehension.ok THEN list_comprehension
                        ELSE IF list_comprehension.v.some
                        THEN POk(list_comprehension.p, <<list_comprehension.v.v>>)
                        ELSE parse_list_entries(
                                 Rewound([list_comprehension.p EXCEPT !.pos = lexer_reset_state],
                                         p1, primary_expression),
                                 <<>>)}})
              : list_comprehension \in {parse_list_comprehension(p1)}})
         : p1 \in {consume_token(p)}})

\* The lexer's reset state is its position; of the loops that may follow the
\* first expression, the for loop is the one the tokens of the model reach.
parse_list(p, primary_expression) ==
    Let({LET lexer_reset_state == p1.pos
             ast_reset_point == reset_point(p1)
         IN
         Let({Let({parse_list_end(entries, primary_expression)
                   : entries \in
                       {IF ~list_comprehension.ok THEN list_comprehension
                        ELSE IF list_comprehension.v.some
                        THEN POk(list_comprehension.p, <<list_comprehension.v.v>>)
                        ELSE parse_list_entries(
                                 Rewound(reset([list_comprehension.p
                                                    EXCEPT !.pos = lexer_reset_state],
                                               ast_reset_point),
                                         p1, primary_expression),
                                 <<>>)}})
              : list_comprehension \in {parse_list_comprehension(p1)}})
         : p1 \in {consume_token(p)}})

\* parse_for_loop: the loop over the arguments
RECURSIVE parse_for_args(_, _)
parse_for_args(p, args) ==
    Let({IF ~id.v.some THEN POk(id.p, args)
         ELSE Let({CASE peek_token(p2) = "Separator" ->
                            parse_for_args(consume_token(p2), Append(args, id.v.v))
                     [] peek_token(p2) = "In" ->
                            POk(consume_token(p2), Append(args, id.v.v))
                     [] OTHER -> PErr(p2, "ExpectedForInKeyword")
                   : p2 \in {skip_whitespace_and_peek(
                                 frame_mut(id.p, [frame(id.p) EXCEPT
                                                     !.ids_assigned_in_scope =
                                                         @ \cup {id.v.v}]))}})
         : id \in {parse_id(p, TRUE)}})

\* parse_for_loop: the loop over the ranges
RECURSIVE parse_for_ranges(_, _)
parse_for_ranges(p, ranges) ==
    Let({IF ~range.ok THEN range
         ELSE IF ~range.v.some THEN POk(range.p, ranges)
         ELSE Let({IF peek_token(p1) # "Separator" THEN POk(p1, Append(ranges, range.v.v))
                   ELSE parse_for_ranges(consume_token(p1), Append(ranges, range.v.v))
                   : p1 \in {skip_whitespace_and_peek(range.p)}})
         : range \in {parse_primary_expression(p)}})

\* parse_for_loop: the body, the expressions before the loop when there are
\* some, the indented block that follows otherwise.
parse_for_body(p, inline_body, current_indent) ==
    IF ~inline_body.some
    THEN Dispatch("parse_indented_block", <<p, current_indent, NoResult>>)
    ELSE IF inline_body.v = <<>> THEN PErr(p, "ForParseFailure")
    ELSE IF Len(inline_body.v) = 1 THEN POk(p, Some(inline_body.v[1]))
    ELSE Let({POk(result.p, Some(result.index))
              : result \in {push_node(p, [node |-> "Expressions",
                                          expressions |-> inline_body.v])}})

parse_for_loop(p, inline_body) ==
    Let({IF peek_token(p1) # "For" THEN POk(p1, NoResult)
         ELSE Let({IF ~args.ok THEN args
                   ELSE IF args.v = <<>> THEN PErr(args.p, "ExpectedForArgs")
                   ELSE Let({IF ~ranges.ok THEN ranges
                             ELSE IF ranges.v = <<>> THEN PErr(ranges.p, "ExpectedForRanges")
                             ELSE Let({IF ~body.ok THEN body
                                       ELSE IF ~body.v.some
                                       THEN PErr(body.p, "ExpectedForBody")
                                       ELSE Let({POk(result.p, Some(result.index))
                                                 : result \in
                                                     {push_node(
                                                          body.p,
                                                          [node |-> "For", args |-> args.v,
                                                           ranges |-> ranges.v,
                                                           condition |-> NoResult,
                                                           body |-> body.v.v])}})
                                       : body \in
                                           {parse_for_body(
                                                skip_whitespace_and_peek(ranges.p),
                                                inline_body, lexer_current_indent(p1))}})
                             : ranges \in {parse_for_ranges(args.p, <<>>)}})
                   : args \in {parse_for_args(consume_token(p1), <<>>)}})
         : p1 \in {skip_whitespace_and_peek(p)}})

parse_nested_expression(p) ==
    Let({IF peek_token(p1) # "ParenOpen" THEN POk(p1, NoResult)
         ELSE Let({IF ~parsed.ok THEN parsed
                   ELSE Let({IF peek_token(expression.p) # "ParenClose"
                             THEN PErr(expression.p, "ExpectedCloseParen")
                             ELSE Let({IF next_token_is_lookup_start(p2)
                                       THEN parse_lookup(p2, expression.index, FALSE)
                                       ELSE POk(p2, Some(expression.index))
                                       : p2 \in {consume_token(expression.p)}})
                             : expression \in
                                 {IF parsed.v.some THEN [p |-> parsed.p, index |-> parsed.v.v]
                                  ELSE push_node(parsed.p, [node |-> "Empty"])}})
                   : parsed \in {parse_primary_expression(consume_token(p1))}})
         : p1 \in {skip_whitespace_and_peek(p)}})

parse_id_or_string(p) ==
    Let({IF peek_token(p1) = "Id"
         THEN Let({[p |-> add_string(p2, slice(p2)), v |-> Some(slice(p2))]
                   : p2 \in {consume_token(p1)}})
         ELSE [p |-> p1, v |-> NoResult]
         : p1 \in {skip_whitespace_and_peek(p)}})

parse_indented_map_or_block(p, current_indent) ==
    Let({Let({IF ~map_block.ok \/ map_block.v.some THEN map_block
              ELSE Dispatch("parse_indented_block",
                            <<map_block.p, current_indent, Some(lexer_next_indent(p1))>>)
              : map_block \in
                  {Dispatch("parse_map_block",
                            <<p1, current_indent, Some(lexer_next_indent(p1))>>)}})
         : p1 \in {consume_until_next_token(p)}})

\* parse_map_block: one entry, the key and the value it may have; no entry
\* when no key follows.
parse_map_block_entry(p) ==
    Let({IF ~key.v.some THEN POk(key.p, NoResult)
         ELSE Let({IF peek_token(p1) # "Colon"
                   THEN POk(consume_token(p1), Some(<<key.v.v, NoResult>>))
                   ELSE Let({IF ~value.ok THEN value
                             ELSE IF value.v.some
                             THEN POk(value.p, Some(<<key.v.v, value.v>>))
                             ELSE Let({IF ~next_value.ok THEN next_value
                                       ELSE IF ~next_value.v.some
                                       THEN PErr(next_value.p, "ExpectedMapValue")
                                       ELSE POk(next_value.p,
                                                Some(<<key.v.v, next_value.v>>))
                                       : next_value \in
                                           {Dispatch("parse_line",
                                                     <<consume_until_next_token(value.p)>>)}})
                             : value \in {Dispatch("parse_line", <<consume_token(p1)>>)}})
                   : p1 \in {skip_whitespace_and_peek(key.p)}})
         : key \in {parse_id_or_string(p)}})

\* parse_map_block: the loop over the entries
RECURSIVE parse_map_block_entries(_, _, _)
parse_map_block_entries(p, block_indent, entries) ==
    Let({IF ~entry.ok THEN entry
         ELSE IF ~entry.v.some THEN POk(entry.p, entries)
         ELSE Let({IF lexer_next_indent(p1) < block_indent
                   THEN POk(p1, Append(entries, entry.v.v))
                   ELSE IF lexer_next_indent(p1) = block_indent
                   THEN parse_map_block_entries(p1, block_indent,
                                                Append(entries, entry.v.v))
                   ELSE PErr(p1, "UnexpectedIndentation")
                   : p1 \in {consume_until_next_token(entry.p)}})
         : entry \in {parse_map_block_entry(p)}})

\* parse_map_block once the indentation of the block is known: the look
\* ahead for a first entry, the entries and the Map node.
parse_map_block_start(p, block_indent) ==
    Let({IF peek_token(p1) # "Id" \/ peek_token_n(p1, 1) # "Colon" THEN POk(p1, NoResult)
         ELSE Let({IF ~entries.ok THEN entries
                   ELSE Let({POk(result.p, Some(result.index))
                             : result \in
                                 {push_node_with_start_span(
                                      entries.p, [node |-> "Map", entries |-> entries.v])}})
                   : entries \in {parse_map_block_entries(p1, block_indent, <<>>)}})
         : p1 \in {consume_until_next_token(p)}})

parse_map_block(p, current_indent, block_indent) ==
    IF block_indent.some THEN parse_map_block_start(p, block_indent.v)
    ELSE Let({IF peek_token(p1) # "NewLineIndented" \/ lexer_next_indent(p1) <= current_indent
              THEN POk(p1, NoResult)
              ELSE parse_map_block_start(consume_token(p1), lexer_next_indent(p1))
              : p1 \in {skip_whitespace_and_peek(p)}})

\* parse_map_inline: one entry, the key and the value it may have; no entry
\* when no key follows.
parse_map_inline_entry(p) ==
    Let({IF ~key.v.some THEN POk(key.p, NoResult)
         ELSE IF peek_token(key.p) # "Colon" THEN POk(key.p, Some(<<key.v.v, NoResult>>))
         ELSE Let({IF ~value.ok THEN value
                   ELSE IF ~value.v.some THEN PErr(value.p, "ExpectedMapValue")
                   ELSE POk(value.p, Some(<<key.v.v, value.v>>))
                   : value \in
                       {parse_primary_expression(
                            consume_until_next_token(consume_token(key.p)))}})
         : key \in {parse_id_or_string(consume_until_next_token(p))}})

\* parse_map_inline: the loop over the entries
RECURSIVE parse_map_inline_entries(_, _)
parse_map_inline_entries(p, entries) ==
    Let({IF ~entry.ok THEN entry
         ELSE IF ~entry.v.some THEN POk(entry.p, entries)
         ELSE Let({IF peek_token(p1) = "Separator"
                   THEN parse_map_inline_entries(consume_token(p1),
                                                 Append(entries, entry.v.v))
                   ELSE POk(p1, Append(entries, entry.v.v))
                   : p1 \in {skip_whitespace_and_peek(entry.p)}})
         : entry \in {parse_map_inline_entry(p)}})

parse_map_inline(p, primary_expression) ==
    Let({IF ~entries.ok THEN entries
         ELSE Let({IF peek_token(p1) # "MapEnd" THEN PErr(consume_token(p1), "ExpectedMapEnd")
                   ELSE Let({IF next_token_is_lookup_start(map_node.p)
                             THEN parse_lookup(map_node.p, map_node.index, primary_expression)
                             ELSE POk(map_node.p, Some(map_node.index))
                             : map_node \in
                                 {push_node_with_start_span(
                                      consume_token(p1),
                                      [node |-> "Map", entries |-> entries.v])}})
                   : p1 \in {skip_whitespace_and_peek(entries.p)}})
         : entries \in {parse_map_inline_entries(consume_token(p), <<>>)}})

\* parse_indented_block: the loop over the lines of the block
RECURSIVE parse_indented_block_lines(_, _, _)
parse_indented_block_lines(p, block_indent, body) ==
    Let({IF ~expression.ok THEN expression
         ELSE IF ~expression.v.some THEN POk(expression.p, body)
         ELSE Let({IF lexer_current_indent(p1) < block_indent
                   THEN POk(p1, Append(body, expression.v.v))
                   ELSE IF lexer_current_indent(p1) = block_indent
                   THEN parse_indented_block_lines(p1, block_indent,
                                                   Append(body, expression.v.v))
                   ELSE PErr(p1, "UnexpectedIndentation")
                   : p1 \in {consume_until_next_token(expression.p)}})
         : expression \in {Dispatch("parse_line", <<p>>)}})

\* parse_indented_block once the indentation of the block is known
parse_indented_block_body(p, current_indent, block_indent) ==
    IF block_indent <= current_indent THEN POk(p, NoResult)
    ELSE Let({IF ~body.ok THEN body
              ELSE IF Len(body.v) = 1 THEN POk(body.p, Some(body.v[1]))
              ELSE Let({POk(result.p, Some(result.index))
                        : result \in
                            {push_node_with_start_span(
                                 body.p, [node |-> "Block", body |-> body.v])}})
              : body \in {parse_indented_block_lines(consume_until_next_token(p),
                                                     block_indent, <<>>)}})

parse_indented_block(p, current_indent, block_indent) ==
    IF block_indent.some THEN parse_indented_block_body(p, current_indent, block_indent.v)
    ELSE Let({IF peek_token(p1) # "NewLineIndented" \/ lexer_next_indent(p1) <= current_indent
              THEN POk(p1, NoResult)
              ELSE parse_indented_block_body(consume_token(p1), current_indent,
                                             lexer_next_indent(p1))
              : p1 \in {skip_whitespace_and_peek(p)}})

\* consume_import_items: the loop over the ids of one item, after its root
RECURSIVE consume_import_item(_, _)
consume_import_item(p, item) ==
    IF peek_token(p) # "Dot" THEN POk(p, item)
    ELSE Let({IF id.v.some THEN consume_import_item(id.p, Append(item, id.v.v))
              ELSE PErr(id.p, "ExpectedImportModuleId")
              : id \in {parse_id(consume_token(p), FALSE)}})

\* consume_import_items: the loop over the items
RECURSIVE consume_import_items_loop(_, _)
consume_import_items_loop(p, items) ==
    Let({IF ~item_root.v.some THEN POk(item_root.p, items)
         ELSE Let({IF ~item.ok THEN item
                   ELSE consume_import_items_loop(item.p, Append(items, item.v))
                   : item \in {consume_import_item(item_root.p, <<item_root.v.v>>)}})
         : item_root \in {parse_id(p, FALSE)}})

consume_import_items(p) ==
    Let({IF items.ok /\ items.v = <<>> THEN PErr(items.p, "ExpectedIdInImportExpression")
         ELSE items
         : items \in {consume_import_items_loop(p, <<>>)}})

\* parse_import_expression after `from`: the one item to import from, and
\* the import keyword.
parse_import_from(p) ==
    Let({IF ~items.ok THEN items
         ELSE IF Len(items.v) # 1 THEN PErr(items.p, "ImportFromExpressionHasTooManyItems")
         ELSE Let({IF peek_token(p1) # "Import"
                   THEN PErr(p1, "ExpectedImportKeywordAfterFrom")
                   ELSE POk(consume_token(p1), items.v[1])
                   : p1 \in {skip_whitespace_and_peek(items.p)}})
         : items \in {consume_import_items(p)}})

\* A parse_import_expression that leaves the frame as it is.
parse_import_expression_BindsNothing(p) ==
    IF peek_token(p) \notin {"From", "Import"} THEN PErr(p, "UnexpectedToken")
    ELSE
    Let({IF ~from.ok THEN from
         ELSE Let({IF ~items.ok THEN items
                   ELSE Let({POk(result.p, Some(result.index))
                             : result \in
                                 {push_node(items.p,
                                            [node |-> "Import", from |-> from.v,
                                             items |-> items.v])}})
                   : items \in {consume_import_items(from.p)}})
         : from \in {IF peek_token(p) = "From" THEN parse_import_from(consume_token(p))
                     ELSE POk(consume_token(p), <<>>)}})

\* An item that consume_import_items gives has its root, so the last id of
\* every item is there.
parse_import_expression(p) ==
    IF peek_token(p) \notin {"From", "Import"} THEN PErr(p, "UnexpectedToken")
    ELSE
    Let({IF ~from.ok THEN from
         ELSE Let({IF ~items.ok THEN items
                   ELSE Let({POk(result.p, Some(result.index))
                             : result \in
                                 {push_node(
                                      frame_mut(items.p,
                                                [frame(items.p) EXCEPT
                                                    !.ids_assigned_in_scope =
                                                        @ \cup {item[Len(item)] :
                                                                  item \in Elements(items.v)}]),
                                      [node |-> "Import", from |-> from.v,
                                       items |-> items.v])}})
                   : items \in {consume_import_items(from.p)}})
         : from \in {IF peek_token(p) = "From" THEN parse_import_from(consume_token(p))
                     ELSE POk(consume_token(p), <<>>)}})

\* parse_try_expression after the catch block: the finally block and the
\* Try node.
parse_try_finally(p, current_indent, try_block, catch_arg, catch_block) ==
    Let({Let({IF ~finally_block.ok THEN finally_block
              ELSE IF peek_token(p1) = "Finally" /\ ~finally_block.v.some
              THEN PErr(finally_block.p, "ExpectedFinallyBody")
              ELSE Let({POk(result.p, Some(result.index))
                        : result \in
                            {push_node_with_start_span(
                                 finally_block.p,
                                 [node |-> "Try", try_block |-> try_block,
                                  catch_arg |-> catch_arg, catch_block |-> catch_block,
                                  finally_block |-> finally_block.v])}})
              : finally_block \in
                  {IF peek_token(p1) = "Finally"
                   THEN Dispatch("parse_indented_block",
                                 <<consume_token(p1), current_indent, NoResult>>)
                   ELSE POk(p1, NoResult)}})
         : p1 \in {skip_whitespace_and_peek(p)}})

\* parse_try_expression from the catch keyword on
parse_try_catch(p, current_indent, try_block) ==
    Let({IF peek_token(p1) # "Catch" THEN PErr(consume_token(p1), "ExpectedCatchBlock")
         ELSE Let({IF ~catch_arg.v.some THEN PErr(catch_arg.p, "ExpectedCatchArgument")
                   ELSE Let({IF ~catch_block.ok THEN catch_block
                             ELSE IF ~catch_block.v.some
                             THEN PErr(catch_block.p, "ExpectedCatchBody")
                             ELSE parse_try_finally(catch_block.p, current_indent, try_block,
                                                    catch_arg.v.v, catch_block.v.v)
                             : catch_block \in
                                 {Dispatch("parse_indented_block",
                                           <<frame_mut(catch_arg.p,
                                                       [frame(catch_arg.p) EXCEPT
                                                           !.ids_assigned_in_scope =
                                                               @ \cup {catch_arg.v.v}]),
                                             current_indent, NoResult>>)}})
                   : catch_arg \in {parse_id(consume_token(p1), TRUE)}})
         : p1 \in {skip_whitespace_and_peek(p)}})

parse_try_expression(p) ==
    Let({IF ~try_block.ok THEN try_block
         ELSE IF ~try_block.v.some THEN PErr(try_block.p, "ExpectedTryBody")
         ELSE parse_try_catch(try_block.p, lexer_current_indent(p), try_block.v.v)
         : try_block \in {Dispatch("parse_indented_block",
                                   <<consume_token(p), lexer_current_indent(p), NoResult>>)}})

parse_match_pattern(p) ==
    Let({CASE peek_token(p1) \in {"True", "False", "Number", "String"} ->
                  Dispatch("parse_term", <<p1, FALSE>>)
           [] peek_token(p1) = "Id" ->
                  Let({Let({POk(result.p, Some(result.index))
                            : result \in
                                {push_node(frame_mut(id.p,
                                                     [frame(id.p) EXCEPT
                                                         !.ids_assigned_in_scope =
                                                             @ \cup {id.v.v}]),
                                           [node |-> "Id", id |-> id.v.v])}})
                       : id \in {parse_id(p1, FALSE)}})
           [] peek_token(p1) = "ListStart" -> Dispatch("parse_list", <<p1, FALSE>>)
           [] peek_token(p1) = "Wildcard" ->
                  Let({POk(result.p, Some(result.index))
                       : result \in {push_node(consume_token(p1), [node |-> "Wildcard"])}})
           [] peek_token(p1) = "ParenOpen" /\ peek_token_n(p1, 1) = "ParenClose" ->
                  Let({POk(result.p, Some(result.index))
                       : result \in {push_node(consume_token(consume_token(p1)),
                                               [node |-> "Empty"])}})
           [] OTHER -> POk(p1, NoResult)
         : p1 \in {skip_whitespace_and_peek(p)}})

\* parse_match_expression: the loop over the patterns that commas separate,
\* after the first of them.
RECURSIVE parse_match_patterns(_, _)
parse_match_patterns(p, patterns) ==
    Let({IF peek_token(p1) # "Separator" THEN POk(p1, patterns)
         ELSE Let({IF ~pattern.ok THEN pattern
                   ELSE IF ~pattern.v.some THEN PErr(pattern.p, "ExpectedMatchPattern")
                   ELSE parse_match_patterns(pattern.p, Append(patterns, pattern.v.v))
                   : pattern \in {parse_match_pattern(consume_token(p1))}})
         : p1 \in {skip_whitespace_and_peek(p)}})

\* parse_match_expression: the loop over the alternatives of one arm; it
\* gives arm_patterns and expected_arm_count.
RECURSIVE parse_match_arm_patterns(_, _, _)
parse_match_arm_patterns(p, arm_patterns, expected_arm_count) ==
    Let({IF ~pattern.ok THEN pattern
         ELSE IF ~pattern.v.some THEN POk(pattern.p, <<arm_patterns, expected_arm_count>>)
         ELSE Let({IF ~patterns.ok THEN patterns
                   ELSE Let({Let({IF peek_token(p1) = "Or"
                                  THEN parse_match_arm_patterns(
                                           consume_token(p1),
                                           Append(arm_patterns, arm_pattern.index),
                                           expected_arm_count + 1)
                                  ELSE parse_match_arm_patterns(
                                           p1, Append(arm_patterns, arm_pattern.index),
                                           expected_arm_count)
                                  : p1 \in {skip_whitespace_and_peek(arm_pattern.p)}})
                             : arm_pattern \in
                                 {IF Len(patterns.v) = 1
                                  THEN [p |-> patterns.p, index |-> patterns.v[1]]
                                  ELSE push_node(patterns.p,
                                                 [node |-> "Expressions",
                                                  expressions |-> patterns.v])}})
                   : patterns \in {parse_match_patterns(pattern.p, <<pattern.v.v>>)}})
         : pattern \in {parse_match_pattern(p)}})

\* parse_match_expression: the expression of an arm, after its patterns and
\* its condition.
parse_match_arm_expression(p, match_indent, arm_patterns, condition) ==
    Let({Let({IF ~expression.ok THEN expression
              ELSE IF ~expression.v.some
              THEN PErr(expression.p,
                        IF peek_token(p1) = "Then" THEN "ExpectedMatchArmExpressionAfterThen"
                        ELSE "ExpectedMatchArmExpression")
              ELSE POk(expression.p, [patterns |-> arm_patterns, condition |-> condition,
                                      expression |-> expression.v.v])
              : expression \in
                  {IF peek_token(p1) = "Then"
                   THEN Dispatch("parse_primary_expressions", <<consume_token(p1), FALSE>>)
                   ELSE Dispatch("parse_indented_map_or_block", <<p1, match_indent>>)}})
         : p1 \in {skip_whitespace_and_peek(p)}})

\* parse_match_expression: one arm
parse_match_arm(p, match_indent) ==
    Let({IF ~arm_patterns.ok THEN arm_patterns
         ELSE IF Len(arm_patterns.v[1]) # arm_patterns.v[2]
         THEN PErr(arm_patterns.p, "ExpectedMatchPattern")
         ELSE Let({IF peek_token(p1) # "If"
                   THEN parse_match_arm_expression(p1, match_indent, arm_patterns.v[1],
                                                   NoResult)
                   ELSE Let({IF ~condition.ok THEN condition
                             ELSE IF ~condition.v.some
                             THEN PErr(condition.p, "ExpectedMatchCondition")
                             ELSE parse_match_arm_expression(condition.p, match_indent,
                                                             arm_patterns.v[1], condition.v)
                             : condition \in {parse_primary_expression(consume_token(p1))}})
                   : p1 \in {skip_whitespace_and_peek(arm_patterns.p)}})
         : arm_patterns \in {parse_match_arm_patterns(p, <<>>, 1)}})

\* parse_match_expression: the loop over the arms
RECURSIVE parse_match_arms(_, _, _)
parse_match_arms(p, match_indent, arms) ==
    IF peek_token(p) = "None" THEN POk(p, arms)
    ELSE Let({IF ~arm.ok THEN arm
              ELSE Let({IF lexer_next_indent(p1) < match_indent
                        THEN POk(p1, Append(arms, arm.v))
                        ELSE IF lexer_next_indent(p1) = match_indent
                        THEN parse_match_arms(p1, match_indent, Append(arms, arm.v))
                        ELSE PErr(p1, "UnexpectedIndentation")
                        : p1 \in {consume_until_next_token(arm.p)}})
              : arm \in {parse_match_arm(p, match_indent)}})

parse_match_expression(p) ==
    IF peek_token(p) # "Match" THEN POk(p, NoResult)
    ELSE
    Let({IF ~expression.ok THEN expression
         ELSE IF ~expression.v.some THEN PErr(expression.p, "ExpectedMatchExpression")
         ELSE Let({IF lexer_current_indent(p1) <= lexer_current_indent(p)
                   THEN PErr(p1, "ExpectedMatchArm")
                   ELSE Let({IF ~arms.ok THEN arms
                             ELSE Let({POk(result.p, Some(result.index))
                                       : result \in
                                           {push_node_with_start_span(
                                                arms.p,
                                                [node |-> "Match",
                                                 expression |-> expression.v.v,
                                                 arms |-> arms.v])}})
                             : arms \in {parse_match_arms(p1, lexer_current_indent(p1),
                                                          <<>>)}})
                   : p1 \in {consume_until_next_token(expression.p)}})
         : expression \in {Dispatch("parse_primary_expressions",
                                    <<consume_token(p), FALSE>>)}})


(***************************************************************************)
(* The parser machine: a program calls Parser::parse once on a source.     *)
(* The sources are token streams as the lexer gives them for              *)
(*  - expressions built, to a bounded depth, from identifiers and numbers  *)
(*    by assignment, function, yield, parentheses, list, list              *)
(*    comprehension and addition;                                          *)
(*  - two such expressions on two lines;                                   *)
(*  - numbers joined by binary operators, a space on both sides of each.   *)
(***************************************************************************)
MaxDepth == 3      \* the deepest nesting of the expressions of a source
MaxOps == 3        \* the most binary operators in an expression

Space == Tok("Whitespace")

Atoms == {<<IdTok("a")>>, <<IdTok("x")>>, <<NumberTok("1")>>}

\* id = e, id += e
Assigned(id, token, e) == <<IdTok(id), Space, Tok(token), Space>> \o e

\* || e and |id| e
Function0(e) == <<Tok("Function"), Tok("Function"), Space>> \o e
Function1(id, e) == <<Tok("Function"), IdTok(id), Tok("Function"), Space>> \o e

Yielded(e) == <<Tok("Yield"), Space>> \o e

Parenthesized(e) == <<Tok("ParenOpen")>> \o e \o <<Tok("ParenClose")>>

ListOf(e) == <<Tok("ListStart")>> \o e \o <<Tok("ListEnd")>>

\* [(e) for id in 0..=1]
Comprehension(e, id) ==
    <<Tok("ListStart")>> \o Parenthesized(e)
    \o <<Space, Tok("For"), Space, IdTok(id), Space, Tok("In"), Space,
         NumberTok("0"), Tok("RangeInclusive"), NumberTok("1"), Tok("ListEnd")>>

\* e + 1
Plus1(e) == e \o <<Space, Tok("Add"), Space, NumberTok("1")>>

RECURSIVE Expressions(_)
Expressions(d) ==
    IF d = 0 THEN Atoms
    ELSE LET E == Expressions(d - 1) IN
         E \cup {Assigned("a", "Assign", e) : e \in E}
           \cup {Assigned("x", "Assign", e) : e \in E}
           \cup {Assigned("x", "AssignAdd", e) : e \in E}
           \cup {Function0(e) : e \in E}
           \cup {Function1("x", e) : e \in E}
           \cup {Yielded(e) : e \in E}
           \cup {Parenthesized(e) : e \in E}
           \cup {ListOf(e) : e \in E}
           \cup {Comprehension(e, "x") : e \in E}
           \cup {Plus1(e) : e \in E}

TwoLines == {e1 \o <<Tok("NewLine")>> \o e2 : e1 \in Expressions(1), e2 \in Expressions(1)}

BinaryOperators ==
    {"Or", "And", "Equal", "NotEqual", "Greater", "GreaterOrEqual", "Less", "LessOrEqual",
     "Add", "Subtract", "Multiply", "Divide", "Modulo"}

Digits == <<"0", "1", "2", "3", "4", "5", "6", "7">>

\* 0 op1 1 op2 2 ... : the i-th term is the number i
RECURSIVE Operation(_, _)
Operation(ops, k) ==
    IF k = 0 THEN <<NumberTok(Digits[1])>>
    ELSE Operation(ops, k - 1) \o <<Space, Tok(ops[k]), Space, NumberTok(Digits[k + 1])>>

Source(tokens, ops) == [tokens |-> tokens, ops |-> ops]

InitParser == InitEager

ParseExpression ==
    /\ op = "none"
    /\ \E e \in Expressions(MaxDepth) :
           Called("parse", Source(e, <<>>), parse(e))

ParseLines ==
    /\ op = "none"
    /\ \E e \in TwoLines :
           Called("parse", Source(e, <<>>), parse(e))

ParseOperation ==
    /\ op = "none"
    /\ \E ops \in SeqsUpTo(BinaryOperators, MaxOps) :
           Called("parse", Source(Operation(ops, Len(ops)), ops),
                  parse(Operation(ops, Len(ops))))

CompoundAssignments ==
    {"AssignAdd", "AssignSubtract", "AssignMultiply", "AssignDivide", "AssignModulo"}

\* id op= e: alone, as the body of a function, and as the body of a
\* function with the argument x
ModifyAssigns ==
    UNION {{Assigned(id, token, e), Function0(Assigned(id, token, e)),
            Function1("x", Assigned(id, token, e))} :
               <<id, token, e>> \in {"a", "x"} \X CompoundAssignments \X Expressions(1)}

ParseModifyAssign ==
    /\ op = "none"
    /\ \E e \in ModifyAssigns :
           Called("parse", Source(e, <<>>), parse(e))

NextParser == ParseExpression \/ ParseLines \/ ParseOperation \/ ParseModifyAssign

SpecParser == InitParser /\ [][NextParser]_vars


(***************************************************************************)
(* Reading a parsed tree                                                   *)
(***************************************************************************)
\* The node indices a node holds.
Children(n) ==
    CASE n.node \in {"MainBlock"} -> Elements(n.body)
      [] n.node = "Expressions" -> Elements(n.expressions)
      [] n.node = "List" -> Elements(n.entries)
      [] n.node = "Function" -> {n.body}
      [] n.node = "BinaryOp" -> {n.lhs, n.rhs}
      [] n.node = "Assign" -> {n.target.target_index, n.expression}
      [] n.node = "MultiAssign" ->
             {n.targets[i].target_index : i \in DOMAIN n.targets} \cup {n.expressions}
      [] n.node = "Call" -> {n.function} \cup Elements(n.args)
      [] n.node \in {"Negate", "Yield"} -> {n.expression}
      [] n.node = "Range" -> {n.start, n.end}
      [] n.node = "RangeFrom" -> {n.start}
      [] n.node = "RangeTo" -> {n.end}
      [] n.node = "For" ->
             Elements(n.ranges) \cup {n.body}
             \cup (IF n.condition.some THEN {n.condition.v} ELSE {})
      [] n.node = "Block" -> Elements(n.body)
      [] n.node = "Map" -> {e[2].v : e \in {e \in Elements(n.entries) : e[2].some}}
      [] n.node = "Try" ->
             {n.try_block, n.catch_block}
             \cup (IF n.finally_block.some THEN {n.finally_block.v} ELSE {})
      [] n.node = "Match" ->
             {n.expression}
             \cup UNION {Elements(arm.patterns) \cup {arm.expression}
                         \cup (IF arm.condition.some THEN {arm.condition.v} ELSE {}) :
                             arm \in Elements(n.arms)}
      [] OTHER -> {}

\* The nodes of one frame under a node: the node and what it holds, a
\* nested function's node included and its body left out.
RECURSIVE Own(_, _)
Own(ast, index) ==
    {index} \cup
    (IF ast[index + 1].node = "Function" THEN {}
     ELSE UNION {Own(ast, c) : c \in Children(ast[index + 1])})

Functions(ast) == {i \in 0..(Len(ast) - 1) : ast[i + 1].node = "Function"}

Parsed == op = "parse" /\ ret.ok

\* C15: every successful parse returns an AST whose entry point is a
\* MainBlock and in which every index a node holds is the index of a node
\* of the AST, the rewound speculative parse of a list included.
C15_IndicesInBounds ==
    Parsed =>
        /\ ret.entry_point \in 0..(Len(ret.ast) - 1)
        /\ ret.ast[ret.entry_point + 1].node = "MainBlock"
        /\ \A i \in DOMAIN ret.ast :
               \A c \in Children(ret.ast[i]) : c \in 0..(Len(ret.ast) - 1)

\* [(a + 1)]: the list's entry was parsed, rewound and parsed again.
C15_Witness ==
    /\ Parsed
    /\ input.tokens = ListOf(Parenthesized(Plus1(<<IdTok("a")>>)))
    /\ ret.ast = <<[node |-> "Id", id |-> "a"], [node |-> "Number1"],
                   [node |-> "BinaryOp", op |-> "Add", lhs |-> 0, rhs |-> 1],
                   [node |-> "List", entries |-> <<2>>],
                   [node |-> "MainBlock", body |-> <<3>>, local_count |-> 0]>>
    /\ ret.entry_point = 4


\* The frame parse_function popped when it pushed the Function node at an
\* index: the last such pop, the one of the parse that was not rewound.
FrameOf(r, f) ==
    LET events == {i \in DOMAIN r.log : r.log[i].event = "function" /\ r.log[i].node = f}
        latest == CHOOSE i \in events : \A j \in events : j <= i
    IN r.log[latest].before

SelfAssign == Function0(Assigned("a", "Assign", <<IdTok("a")>>))

\* C16: an identifier read in the expression that first assigns it with `=`
\* is a non-local access as well as a local assignment: `|| a = a` gives a
\* Function with accessed_non_locals = [a], whose frame has a in
\* ids_assigned_in_scope, and with local_count 0.
C16_SelfAssignIsCapture ==
    (Parsed /\ input.tokens = SelfAssign) =>
        \E f \in Functions(ret.ast) :
            /\ ret.ast[f + 1].accessed_non_locals = {"a"}
            /\ FrameOf(ret, f).ids_assigned_in_scope = {"a"}
            /\ ret.ast[f + 1].local_count = 0

\* What the parser gives for `|| a = a`: a is a local and nothing is captured.
C16_Witness ==
    /\ Parsed
    /\ input.tokens = SelfAssign
    /\ ret.ast = <<[node |-> "Id", id |-> "a"], [node |-> "Id", id |-> "a"],
                   [node |-> "Assign", target |-> [target_index |-> 0, scope |-> "Local"],
                    op |-> "Equal", expression |-> 1],
                   [node |-> "Function", args |-> <<>>, local_count |-> 1,
                    accessed_non_locals |-> {}, body |-> 2, is_generator |-> FALSE],
                   [node |-> "MainBlock", body |-> <<3>>, local_count |-> 0]>>
    /\ FrameOf(ret, 3).ids_assigned_in_scope = {"a"}


\* The events of parse_function's pops in a log.
FunctionEvents(log) == {i \in DOMAIN log : log[i].event = "function"}

\* The end of the expression around the function of event i: the next
\* finish_expressions of the frame the function was parsed in.
Finishes(log, i) ==
    {j \in DOMAIN log : j > i /\ log[j].event = "finish" /\ log[j].depth = log[i].depth}

EnclosingFinish(log, i) == CHOOSE j \in Finishes(log, i) : \A k \in Finishes(log, i) : j <= k

\* C17: captures propagate outward through every nesting level: an
\* identifier in a Function's accessed_non_locals that the enclosing frame
\* has not assigned by the end of the enclosing expression is then in the
\* enclosing frame's accessed_non_locals, and one the enclosing frame has
\* assigned (and had not captured before) stays a local of it.
C17_CapturesPropagate ==
    Parsed =>
        /\ \A f \in Functions(ret.ast) :
               ret.ast[f + 1].accessed_non_locals = FrameOf(ret, f).accessed_non_locals
        /\ \A i \in FunctionEvents(ret.log) :
               /\ Finishes(ret.log, i) # {}
               /\ LET function_frame == ret.log[i].before
                      enclosing == ret.log[EnclosingFinish(ret.log, i)]
                  IN \A id \in function_frame.accessed_non_locals :
                         IF id \notin enclosing.before.ids_assigned_in_scope
                         THEN id \in enclosing.after.accessed_non_locals
                         ELSE id \notin enclosing.before.accessed_non_locals
                              => /\ id \notin enclosing.after.accessed_non_locals
                                 /\ id \in enclosing.after.ids_assigned_in_scope

\* [(|| x) for x in 0..=1]: the function captures x, the loop argument x
\* is the one local of the main block.
C17_Witness ==
    /\ Parsed
    /\ input.tokens = Comprehension(Function0(<<IdTok("x")>>), "x")
    /\ ret.ast = <<[node |-> "Id", id |-> "x"],
                   [node |-> "Function", args |-> <<>>, local_count |-> 0,
                    accessed_non_locals |-> {"x"}, body |-> 0, is_generator |-> FALSE],
                   [node |-> "Number0"], [node |-> "Number1"],
                   [node |-> "Range", start |-> 2, end |-> 3, inclusive |-> TRUE],
                   [node |-> "For", args |-> <<"x">>, ranges |-> <<4>>,
                    condition |-> NoResult, body |-> 1],
                   [node |-> "List", entries |-> <<5>>],
                   [node |-> "MainBlock", body |-> <<6>>, local_count |-> 1]>>
    /\ \E i \in FunctionEvents(ret.log) :
           /\ "x" \in ret.log[EnclosingFinish(ret.log, i)].before.ids_assigned_in_scope
           /\ "x" \notin ret.log[EnclosingFinish(ret.log, i)].after.accessed_non_locals


\* The ids of the Id targets of the assignments of a frame whose operator
\* is in ops: the frame is the nodes under a function's body.
AssignedIds(ast, own, ops) ==
    {ast[ast[i + 1].target.target_index + 1].id :
        i \in {j \in own : /\ ast[j + 1].node = "Assign"
                           /\ ast[j + 1].op \in ops
                           /\ ast[ast[j + 1].target.target_index + 1].node = "Id"}}

\* The arguments of the for loops of a frame.
LoopArgs(ast, own) ==
    UNION {Elements(ast[i + 1].args) : i \in {j \in own : ast[j + 1].node = "For"}}

CompoundOps == {"Add", "Subtract", "Multiply", "Divide", "Modulo"}

\* C18: only a plain `=` makes the identifier it assigns a local. In every
\* Function of a successful parse the frame's ids_assigned_in_scope are the
\* function's arguments, its loop arguments and the targets of its plain
\* assignments; an identifier the frame only assigns with += -= *= /= %=
\* is in accessed_non_locals and is not counted in local_count.
C18_OnlyPlainAssignIsLocal ==
    Parsed =>
        \A f \in Functions(ret.ast) :
            LET function == ret.ast[f + 1]
                own == Own(ret.ast, function.body)
                bound == Elements(function.args) \cup LoopArgs(ret.ast, own)
                         \cup AssignedIds(ret.ast, own, {"Equal"})
                compound == AssignedIds(ret.ast, own, CompoundOps)
            IN /\ FrameOf(ret, f).ids_assigned_in_scope = bound
               /\ (compound \ bound) \subseteq function.accessed_non_locals
               /\ function.local_count = Cardinality(bound \ function.accessed_non_locals)

\* || x += 1: x is captured and the function has no local.
C18_Witness ==
    /\ Parsed
    /\ input.tokens = Function0(Assigned("x", "AssignAdd", <<NumberTok("1")>>))
    /\ ret.ast = <<[node |-> "Id", id |-> "x"], [node |-> "Number1"],
                   [node |-> "Assign", target |-> [target_index |-> 0, scope |-> "Local"],
                    op |-> "Add", expression |-> 1],
                   [node |-> "Function", args |-> <<>>, local_count |-> 0,
                    accessed_non_locals |-> {"x"}, body |-> 2, is_generator |-> FALSE],
                   [node |-> "MainBlock", body |-> <<3>>, local_count |-> 0]>>
    /\ FrameOf(ret, 3).ids_assigned_in_scope = {}


\* The levels of the precedence table, from the loosest to the tightest.
Level(token) ==
    CASE token = "Or" -> 1
      [] token = "And" -> 2
      [] token \in {"Equal", "NotEqual"} -> 3
      [] token \in {"Greater", "GreaterOrEqual", "Less", "LessOrEqual"} -> 4
      [] token \in {"Add", "Subtract"} -> 5
      [] token \in {"Multiply", "Divide", "Modulo"} -> 6

\* The logical and the arithmetic levels group left-to-right.
GroupsLeft(level) == level \in {1, 2, 5, 6}

\* The tree the table gives to the terms lo..hi, where ops[i] stands
\* between the terms i - 1 and i: the expression splits at an operator of
\* its loosest level, the last one when the level groups left-to-right and
\* the first one when it groups right-to-left.
RECURSIVE Grouped(_, _, _)
Grouped(ops, lo, hi) ==
    IF lo = hi THEN [term |-> lo]
    ELSE LET range == (lo + 1)..hi
             loosest == CHOOSE l \in {Level(ops[i]) : i \in range} :
                            \A i \in range : l <= Level(ops[i])
             at == {i \in range : Level(ops[i]) = loosest}
             split == IF GroupsLeft(loosest)
                      THEN CHOOSE i \in at : \A j \in at : j <= i
                      ELSE CHOOSE i \in at : \A j \in at : i <= j
         IN [op |-> ops[split], lhs |-> Grouped(ops, lo, split - 1),
             rhs |-> Grouped(ops, split, hi)]

\* The number a number node stands for.
TermOf(n) ==
    CASE n.node = "Number0" -> 0
      [] n.node = "Number1" -> 1
      [] n.node = "Number" -> (CHOOSE i \in DOMAIN Digits : Digits[i] = n.constant) - 1

\* The tree of BinaryOps under a node.
RECURSIVE Tree(_, _)
Tree(ast, index) ==
    LET n == ast[index + 1] IN
    IF n.node = "BinaryOp"
    THEN [op |-> n.op, lhs |-> Tree(ast, n.lhs), rhs |-> Tree(ast, n.rhs)]
    ELSE [term |-> TermOf(n)]

\* C19: an expression of terms joined by binary operators, each with
\* whitespace after it, is parsed to the BinaryOp tree of the precedence
\* table or < and < equality < comparison < +,- < *,/,%: a tighter level
\* binds first, the logical and arithmetic levels group left-to-right and
\* the equality and comparison levels group right-to-left.
C19_PrecedenceTable ==
    (op = "parse" /\ input.ops # <<>>) =>
        /\ ret.ok
        /\ Len(ret.ast[ret.entry_point + 1].body) = 1
        /\ Tree(ret.ast, ret.ast[ret.entry_point + 1].body[1])
               = Grouped(input.ops, 0, Len(input.ops))

\* 0 < 1 <= 2 - 3 is parsed as 0 < (1 <= (2 - 3)).
C19_Witness ==
    /\ Parsed
    /\ input.ops = <<"Less", "LessOrEqual", "Subtract">>
    /\ ret.ast = <<[node |-> "Number0"], [node |-> "Number1"],
                   [node |-> "Number", constant |-> "2"],
                   [node |-> "Number", constant |-> "3"],
                   [node |-> "BinaryOp", op |-> "Subtract", lhs |-> 2, rhs |-> 3],
                   [node |-> "BinaryOp", op |-> "LessOrEqual", lhs |-> 1, rhs |-> 4],
                   [node |-> "BinaryOp", op |-> "Less", lhs |-> 0, rhs |-> 5],
                   [node |-> "MainBlock", body |-> <<6>>, local_count |-> 0]>>


\* The yields of a function's own frame: the Yield nodes under its body
\* that are in no nested function.
OwnYields(ast, f) == {i \in Own(ast, ast[f + 1].body) : ast[i + 1].node = "Yield"}

\* C20: a Function has is_generator = true exactly when a yield occurs in
\* its own frame: a yield marks the innermost function around it only, and
\* a function without a yield of its own is no generator.
C20_GeneratorIffOwnYield ==
    Parsed =>
        \A f \in Functions(ret.ast) :
            /\ ret.ast[f + 1].is_generator <=> OwnYields(ret.ast, f) # {}
            /\ ret.ast[f + 1].is_generator = FrameOf(ret, f).contains_yield

\* || || yield 1: the inner function is a generator, the outer one is not.
C20_Witness ==
    /\ Parsed
    /\ input.tokens = Function0(Function0(Yielded(<<NumberTok("1")>>)))
    /\ ret.ast = <<[node |-> "Number1"], [node |-> "Yield", expression |-> 0],
                   [node |-> "Function", args |-> <<>>, local_count |-> 0,
                    accessed_non_locals |-> {}, body |-> 1, is_generator |-> TRUE],
                   [node |-> "Function", args |-> <<>>, local_count |-> 0,
                    accessed_non_locals |-> {}, body |-> 2, is_generator |-> FALSE],
                   [node |-> "MainBlock", body |-> <<3>>, local_count |-> 0]>>

(***************************************************************************)
(* Chain::size_hint. A size hint is (usize, Option<usize>): a lower bound  *)
(* and an upper bound that may be unknown. The hints of the two iterators  *)
(* are what their own size_hint returns; usize has UsizeBits bits here.    *)
(***************************************************************************)
UsizeBits == 2

UsizeMax == 2 ^ UsizeBits - 1

\* usize::saturating_add
saturating_add(a, b) == IF a + b > UsizeMax THEN UsizeMax ELSE a + b

\* usize::checked_add
checked_add(a, b) == IF a + b > UsizeMax THEN NoResult ELSE Some(a + b)

\* A size_hint whose upper bound saturates as the lower one does.
ChainSizeHint_UpperSaturates(iter_a, iter_b) ==
    IF iter_a.some
    THEN [lower |-> saturating_add(iter_a.v.lower, iter_b.lower),
          upper |-> IF iter_a.v.upper.some /\ iter_b.upper.some
                    THEN Some(saturating_add(iter_a.v.upper.v, iter_b.upper.v))
                    ELSE NoResult]
    ELSE iter_b

\* iter_a is the hint of self.iter_a when it is Some, iter_b the hint of
\* self.iter_b.
ChainSizeHint(iter_a, iter_b) ==
    IF iter_a.some
    THEN LET lower_a == iter_a.v.lower
             upper_a == iter_a.v.upper
             lower_b == iter_b.lower
             upper_b == iter_b.upper
         IN [lower |-> saturating_add(lower_a, lower_b),
             upper |-> IF upper_a.some /\ upper_b.some
                       THEN checked_add(upper_a.v, upper_b.v)
                       ELSE NoResult]
    ELSE iter_b

\* The hints an iterator may give: the lower bound is at most the upper one.
SizeHints ==
    {[lower |-> l, upper |-> u] :
        l \in 0..UsizeMax, u \in {NoResult} \cup {Some(n) : n \in 0..UsizeMax}}

ConsistentHints == {h \in SizeHints : h.upper.some => h.lower <= h.upper.v}

InitSizeHint == InitEager

\* size_hint is called once on a Chain whose first iterator is still there
\* or is gone.
CallSizeHint ==
    /\ op = "none"
    /\ \E iter_a \in {NoResult} \cup {Some(h) : h \in ConsistentHints},
          iter_b \in ConsistentHints :
          Called("size_hint", [iter_a |-> iter_a, iter_b |-> iter_b],
                 ChainSizeHint(iter_a, iter_b))

NextSizeHint == CallSizeHint

SpecSizeHint == InitSizeHint /\ [][NextSizeHint]_vars

SizeHintCalled == op = "size_hint"

\* The sum of two bounds, held at the largest usize.
Saturated(a, b) == IF a + b >= UsizeMax THEN UsizeMax ELSE a + b

\* C26 as stated: while the first iterator is there, the hint is the sum of
\* the two hints, the lower and the upper bound both saturating on overflow;
\* once it is gone, the hint is the second iterator's.
C26_BothBoundsSaturate ==
    SizeHintCalled =>
        IF input.iter_a.some
        THEN /\ ret.lower = Saturated(input.iter_a.v.lower, input.iter_b.lower)
             /\ (input.iter_a.v.upper.some /\ input.iter_b.upper.some) =>
                    ret.upper = Some(Saturated(input.iter_a.v.upper.v, input.iter_b.upper.v))
        ELSE ret = input.iter_b

\* C26 as the code has it: the lower bound is the saturating sum; the upper
\* bound is the sum when both parts have one and the sum fits in a usize,
\* and unknown (None) otherwise, overflow included; once the first iterator
\* is gone, the hint is the second iterator's.
C26_UpperUnknownOnOverflow ==
    SizeHintCalled =>
        IF input.iter_a.some
        THEN /\ ret.lower = Saturated(input.iter_a.v.lower, input.iter_b.lower)
             /\ ret.upper =
                    IF /\ input.iter_a.v.upper.some
                       /\ input.iter_b.upper.some
                       /\ input.iter_a.v.upper.v + input.iter_b.upper.v <= UsizeMax
                    THEN Some(input.iter_a.v.upper.v + input.iter_b.upper.v)
                    ELSE NoResult
        ELSE ret = input.iter_b

\* Both sums overflow: the lower bound is held at the largest usize and the
\* upper bound is unknown.
C26_Witness ==
    /\ SizeHintCalled
    /\ input.iter_a = Some([lower |-> UsizeMax, upper |-> Some(UsizeMax)])
    /\ input.iter_b = [lower |-> 1, upper |-> Some(1)]
    /\ ret = [lower |-> UsizeMax, upper |-> NoResult]

(***************************************************************************)
(* Chain and the polls of its two parts.                                   *)
(***************************************************************************)
\* The Chain that x is, or that the Each in x runs over: every x.next()
\* calls its next once. The setups allocate its first part just before its
\* second part.
ChainOfX == IF heap[x].kind = "each" THEN heap[x].iter ELSE x

HasChain == heap[ChainOfX].kind = "chain"

SecondPart == heap[ChainOfX].iter_b

FirstPart == SecondPart - 1

\* The output of the Chain at its i-th call when the first part is polled
\* until its first None and the second part from that call on.
ChainOutput(a, b, i) ==
    IF i <= Len(a) THEN a[i]
    ELSE IF i - Len(a) <= Len(b) THEN b[i - Len(a)]
    ELSE None

\* C27: the Chain polls its first iterator until it first returns None and
\* never again, whatever calls follow; from that call on every output is
\* the second iterator's, and the Chain returns None only when the second
\* iterator does.
C27_FirstPolledUntilNone ==
    HasChain =>
        LET a == heap[FirstPart].items
            b == heap[SecondPart].items
            n == Len(outsX)
        IN /\ heap[FirstPart].polls = (IF n > Len(a) THEN Len(a) + 1 ELSE n)
           /\ heap[SecondPart].polls = (IF n > Len(a) THEN n - Len(a) ELSE 0)
           /\ heap[ChainOfX].iter_a = (IF n > Len(a) THEN 0 ELSE FirstPart)
           /\ x = ChainOfX => \A i \in 1..n : outsX[i] = ChainOutput(a, b, i)

\* Both parts have ended and next was called twice more: the first part
\* was polled once after its last item and the second part three times.
C27_Witness ==
    /\ HasChain
    /\ x = ChainOfX
    /\ Len(heap[FirstPart].items) = 1
    /\ Len(heap[SecondPart].items) = 1
    /\ Len(outsX) = 4
    /\ heap[FirstPart].polls = 2
    /\ heap[SecondPart].polls = 3
    /\ heap[ChainOfX].iter_a = 0
    /\ outsX[3] = None
    /\ outsX[4] = None

(***************************************************************************)
(* The parser on sources with blocks: a program calls Parser::parse once   *)
(* on a source. Besides the sources of the machine above these are token   *)
(* streams as the lexer gives them for                                     *)
(*  - import expressions, with and without from;                           *)
(*  - try expressions with their catch and finally blocks;                 *)
(*  - match expressions, their arms on a line or in an indented block;     *)
(*  - for loops with an indented body;                                     *)
(*  - inline maps and map blocks, shorthand entries among their entries;   *)
(*  - assignments to one and to several targets;                           *)
(*  - each of these as the indented body of a function;                    *)
(*  - expressions with a binary operator whose operand is a map block.     *)
(***************************************************************************)
IndentTok(s) == [t |-> "NewLineIndented", s |-> s]

\* The line break before a line that the indentation s starts.
Break(s) == IF s = "" THEN <<Tok("NewLine")>> ELSE <<IndentTok(s)>>

\* The indentation of the blocks of a line that s indents.
Deeper(s) == s \o "  "

Simple ==
    {<<IdTok("x")>>, <<NumberTok("2")>>, Assigned("a", "Assign", <<IdTok("x")>>),
     Assigned("x", "Assign", <<NumberTok("1")>>), Function0(<<IdTok("a")>>)}

\* import a, import a b, import a.b, from foo import bar baz,
\* from foo.x import a
Dotted(ids) ==
    [i \in 1..(2 * Len(ids) - 1) |-> IF i % 2 = 1 THEN IdTok(ids[(i + 1) \div 2]) ELSE Tok("Dot")]

RECURSIVE Items(_)
Items(items) ==
    IF items = <<>> THEN <<>> ELSE <<Space>> \o Dotted(items[1]) \o Items(Tail(items))

Import(from, items) ==
    (IF from = <<>> THEN <<>> ELSE <<Tok("From"), Space>> \o Dotted(from) \o <<Space>>)
    \o <<Tok("Import")>> \o Items(items)

ImportItems == {<<"a">>, <<"bar">>, <<"baz">>, <<"a", "b">>, <<"foo", "bar">>}

Imports ==
    {Import(from, items) : from \in {<<>>, <<"foo">>, <<"foo", "x">>},
                           items \in SeqsUpTo(ImportItems, 2) \ {<<>>}}

\* try / catch e / finally, the blocks indented under the line s indents
Try(s, try_block, catch_block) ==
    <<Tok("Try")>> \o Break(Deeper(s)) \o try_block
    \o Break(s) \o <<Tok("Catch"), Space, IdTok("e")>> \o Break(Deeper(s)) \o catch_block

TryFinally(s, try_block, catch_block, finally_block) ==
    Try(s, try_block, catch_block)
    \o Break(s) \o <<Tok("Finally")>> \o Break(Deeper(s)) \o finally_block

\* The patterns of a match arm: an id, a wildcard, a number, a list with an
\* id, two ids for two matched values, and two alternatives.
Patterns ==
    {<<IdTok("a")>>, <<IdTok("x")>>, <<Tok("Wildcard")>>, <<NumberTok("1")>>,
     ListOf(<<IdTok("a")>>),
     <<IdTok("a"), Tok("Separator"), Space, IdTok("b")>>,
     <<IdTok("a"), Space, Tok("Or"), Space, IdTok("b")>>}

ArmThen(pattern, e) == pattern \o <<Space, Tok("Then"), Space>> \o e

\* match x with its arms, each on a line of its own
RECURSIVE Arms(_, _)
Arms(s, arms) == IF arms = <<>> THEN <<>> ELSE Break(s) \o arms[1] \o Arms(s, Tail(arms))

Match(s, arms) == <<Tok("Match"), Space, IdTok("x")>> \o Arms(Deeper(s), arms)

\* An arm with its expression in an indented block.
MatchBlock(s, pattern, e) ==
    <<Tok("Match"), Space, IdTok("x")>> \o Break(Deeper(s)) \o pattern
    \o Break(Deeper(Deeper(s))) \o e

\* for i in 0..=1 with the body indented
ForBlock(s, id, body) ==
    <<Tok("For"), Space, IdTok(id), Space, Tok("In"), Space,
      NumberTok("0"), Tok("RangeInclusive"), NumberTok("1")>>
    \o Break(Deeper(s)) \o body

\* An entry of a map: a key with a value, or the shorthand of a key alone.
Entry(key, value) == <<IdTok(key), Tok("Colon"), Space>> \o value
Shorthand(key) == <<IdTok(key)>>

MapEntries == {Shorthand("x"), Shorthand("a"), Entry("a", <<IdTok("x")>>),
               Entry("x", <<NumberTok("1")>>)}

RECURSIVE Inline(_)
Inline(entries) ==
    IF entries = <<>> THEN <<>>
    ELSE entries[1]
         \o (IF Len(entries) = 1 THEN <<>> ELSE <<Tok("Separator"), Space>>)
         \o Inline(Tail(entries))

\* {entry, entry}
MapInline(entries) == <<Tok("MapStart")>> \o Inline(entries) \o <<Tok("MapEnd")>>

\* id = and a map block under it; the first entry of a map block has a value.
MapBlock(s, id, first, entries) ==
    <<IdTok(id), Space, Tok("Assign")>>
    \o Arms(Deeper(s), <<Entry(first, <<NumberTok("1")>>)>> \o entries)

\* f = || or f = |x| with the body indented, the lines of the body given
\* with the indentation of the body
FunctionBlock(args, lines) ==
    <<IdTok("f"), Space, Tok("Assign"), Space, Tok("Function")>> \o args
    \o <<Tok("Function")>> \o Arms("  ", lines)

FunctionArgs == {<<>>, <<IdTok("x")>>}

\* Targets op e: a, b = e and a, b += e
Targets(ids) ==
    [i \in 1..(3 * Len(ids) - 2) |->
        CASE i % 3 = 1 -> IdTok(ids[(i + 2) \div 3])
          [] i % 3 = 2 -> Tok("Separator")
          [] OTHER -> Space]

AssignTokens == {"Assign"} \cup CompoundAssignments

TargetLists == {<<"a">>, <<"a", "b">>, <<"a", "x", "b">>}

MultiAssigned(ids, token, e) == Targets(ids) \o <<Space, Tok(token), Space>> \o e

RightHandSides ==
    {<<NumberTok("1")>>, <<IdTok("x")>>,
     <<NumberTok("1"), Tok("Separator"), Space, NumberTok("2")>>,
     <<IdTok("b"), Tok("Separator"), Space, IdTok("a")>>}

\* The constructs on a line that s indents.
Constructs(s) ==
    Imports
    \cup {Try(s, b1, b2) : b1 \in Simple, b2 \in Simple}
    \cup {TryFinally(s, <<IdTok("x")>>, b2, b3) : b2 \in Simple, b3 \in Simple}
    \cup {Match(s, <<ArmThen(pattern, e)>>) : pattern \in Patterns, e \in Simple}
    \cup {Match(s, <<ArmThen(p1, <<IdTok("x")>>), ArmThen(p2, <<IdTok("a")>>)>>) :
              p1 \in Patterns, p2 \in Patterns}
    \cup {MatchBlock(s, pattern, e) : pattern \in Patterns, e \in Simple}
    \cup {ForBlock(s, id, body) : id \in {"i", "x"}, body \in Simple}
    \cup {MapInline(entries) : entries \in SeqsUpTo(MapEntries, 2)}
    \cup {MapBlock(s, "m", first, entries) :
              first \in {"a", "x"},
              entries \in SeqsUpTo({Shorthand("x"), Entry("b", <<IdTok("x")>>)}, 2)}
    \cup {MultiAssigned(ids, token, e) :
              ids \in TargetLists, token \in AssignTokens, e \in RightHandSides}

\* a, b + and a map block, then , d = 1: the targets of the assignment are
\* parsed before the block and its `=` after it.
MapOperand(ids, token, value) ==
    Targets(ids) \o <<Space, Tok(token)>>
    \o Break("  ") \o Entry("c", value)
    \o <<Tok("NewLine"), Tok("Separator"), Space, IdTok("d"), Space, Tok("Assign"), Space,
         NumberTok("1")>>

\* The source of a file, whose last line ends with a line break.
File(e) == e \o <<Tok("NewLine")>>

ParseConstruct ==
    /\ op = "none"
    /\ \E e \in Constructs("") :
           Called("parse", Source(File(e), <<>>), parse(File(e)))

\* A construct, a line break and an expression.
ParseConstructAndLine ==
    /\ op = "none"
    /\ \E c \in Constructs(""), e \in Simple :
           Called("parse", Source(File(c \o <<Tok("NewLine")>> \o e), <<>>),
                  parse(File(c \o <<Tok("NewLine")>> \o e)))

\* A function whose body is an expression and a construct.
ParseFunctionBlock ==
    /\ op = "none"
    /\ \E args \in FunctionArgs, e \in Simple, c \in Constructs("  ") :
           \E lines \in {<<c>>, <<e, c>>} :
               Called("parse", Source(File(FunctionBlock(args, lines)), <<>>),
                      parse(File(FunctionBlock(args, lines))))

ParseMapOperand ==
    /\ op = "none"
    /\ \E ids \in {<<"a">>, <<"a", "b">>}, token \in {"Add", "Multiply"}, value \in Simple :
           Called("parse", Source(File(MapOperand(ids, token, value)), <<>>),
                  parse(File(MapOperand(ids, token, value))))

NextBlocks ==
    \/ NextParser
    \/ ParseConstruct
    \/ ParseConstructAndLine
    \/ ParseFunctionBlock
    \/ ParseMapOperand

SpecBlocks == InitParser /\ [][NextBlocks]_vars

\* The keys of the shorthand entries of the maps among the nodes of a
\* function's own frame.
ShorthandKeys(ast, f) ==
    UNION {{e[1] : e \in {e \in Elements(ast[n + 1].entries) : ~e[2].some}} :
               n \in {n \in Own(ast, ast[f + 1].body) : ast[n + 1].node = "Map"}}

ShorthandInFunction ==
    File(FunctionBlock(<<>>, <<MapInline(<<Shorthand("x")>>)>>))

\* C28: a map shorthand entry, inline or in a map block, is a read of the
\* identifier of the same name: in a function that does not assign the
\* identifier it is among the function's accessed_non_locals.
C28_ShorthandIsRead ==
    Parsed =>
        \A f \in Functions(ret.ast) :
            \A key \in ShorthandKeys(ret.ast, f) :
                key \notin FrameOf(ret, f).ids_assigned_in_scope
                    => key \in ret.ast[f + 1].accessed_non_locals

\* What the parser gives for a function whose body is {x}: the Map has the
\* shorthand entry and the function captures nothing.
C28_Witness ==
    /\ Parsed
    /\ input.tokens = ShorthandInFunction
    /\ \E f \in Functions(ret.ast) :
           /\ ShorthandKeys(ret.ast, f) = {"x"}
           /\ FrameOf(ret, f).ids_assigned_in_scope = {}
           /\ ret.ast[f + 1].accessed_non_locals = {}

Parses == op = "parse"

\* a, b + and the map block c: 2 under it, then , d = 1
TargetsBeforeMapBlock == File(MapOperand(<<"a", "b">>, "Add", <<NumberTok("2")>>))

\* C29: every `=` assignment to an Id target finds the identifier's access
\* counter at 1 or more: whatever the source, parse neither fails with
\* UnexpectedIdInExpression nor takes a counter below zero, a block or map
\* block that finished its expressions between the target and the `=`
\* included.
C29_DecrementNeverFails ==
    Parses => ret.error \notin {"UnexpectedIdInExpression", SubtractOverflow}

\* What the parser gives when a map block is the operand of + between the
\* targets and the `=`: the value of the block's entry finished the
\* expressions of the frame while a was counted, and the assignment did not
\* find the counter of a.
C29_Witness ==
    /\ Parses
    /\ input.tokens = TargetsBeforeMapBlock
    /\ ~ret.ok
    /\ ret.error = "UnexpectedIdInExpression"
    /\ \E i \in DOMAIN ret.log :
           /\ ret.log[i].event = "finish"
           /\ ret.log[i].depth = 1
           /\ "a" \in DOMAIN ret.log[i].before.expression_id_accesses
           /\ ret.log[i].before.expression_id_accesses["a"] = 1
           /\ ret.log[i].after.expression_id_accesses = [id \in {} |-> 0]

\* The node of the first expression of the main block.
FirstExpression(r) == r.ast[r.ast[r.entry_point + 1].body[1] + 1]

\* C22: an assignment gives a MultiAssign node exactly when its operator is
\* `=` and it has more than one target, and in every other case an Assign
\* node with the operator of the assignment.
C22_MultiAssignOnlyForPlain ==
    \A ids \in TargetLists, token \in AssignTokens, e \in RightHandSides :
        (Parsed /\ input.tokens = File(MultiAssigned(ids, token, e))) =>
            IF token = "Assign" /\ Len(ids) > 1
            THEN FirstExpression(ret).node = "MultiAssign"
            ELSE /\ FirstExpression(ret).node = "Assign"
                 /\ FirstExpression(ret).op = AssignOp(token)

\* What the parser gives for a, b += 1: a MultiAssign node with the two
\* targets, which has no operator.
C22_Witness ==
    /\ Parsed
    /\ input.tokens = File(MultiAssigned(<<"a", "b">>, "AssignAdd", <<NumberTok("1")>>))
    /\ ret.ast = <<[node |-> "Id", id |-> "a"], [node |-> "Id", id |-> "b"],
                   [node |-> "Number1"],
                   [node |-> "MultiAssign",
                    targets |-> <<[target_index |-> 0, scope |-> "Local"],
                                  [target_index |-> 1, scope |-> "Local"]>>,
                    expressions |-> 2],
                   [node |-> "MainBlock", body |-> <<3>>, local_count |-> 0]>>

\* The frame of the main block when parse_main_block pops it: the frame as
\* the last expression of the main block left it.
MainFrame(r) ==
    LET events == {i \in DOMAIN r.log : r.log[i].event = "finish" /\ r.log[i].depth = 1}
    IN IF events = {} THEN [Frame EXCEPT !.top_level = TRUE]
       ELSE r.log[CHOOSE i \in events : \A j \in events : j <= i].after

\* The identifiers of the identifier patterns of a match arm's pattern: the
\* pattern itself, or those among the patterns that commas separate.
PatternIds(ast, pattern) ==
    CASE ast[pattern + 1].node = "Id" -> {ast[pattern + 1].id}
      [] ast[pattern + 1].node = "Expressions" ->
             {ast[c + 1].id :
                  c \in {c \in Elements(ast[pattern + 1].expressions) : ast[c + 1].node = "Id"}}
      [] OTHER -> {}

\* The identifiers that the construct of a node binds.
Bound(ast, n) ==
    CASE ast[n + 1].node = "For" -> Elements(ast[n + 1].args)
      [] ast[n + 1].node = "Try" -> {ast[n + 1].catch_arg}
      [] ast[n + 1].node = "Match" ->
             UNION {PatternIds(ast, pattern) :
                        pattern \in UNION {Elements(arm.patterns) :
                                               arm \in Elements(ast[n + 1].arms)}}
      [] ast[n + 1].node = "Import" ->
             {item[Len(item)] : item \in Elements(ast[n + 1].items)}
      [] OTHER -> {}

\* The identifiers bound in the frame of the node root.
BoundIn(ast, root) == UNION {Bound(ast, n) : n \in Own(ast, root)}

C24_CountIsDifferenceOfSizes ==
    Parsed =>
        \A f \in Functions(ret.ast) :
            Cardinality(FrameOf(ret, f).ids_assigned_in_scope)
            - Cardinality(ret.ast[f + 1].accessed_non_locals)
                = ret.ast[f + 1].local_count

\* C24: for every Function node of a parse, local_count is the number of
\* the identifiers assigned in its scope minus the number of those among
\* them that are accessed non-locals; a non-local that the function does
\* not assign takes nothing from the count.
C24_CountLeavesOutAssignedNonLocals ==
    Parsed =>
        \A f \in Functions(ret.ast) :
            Cardinality(FrameOf(ret, f).ids_assigned_in_scope)
            - Cardinality(FrameOf(ret, f).ids_assigned_in_scope
                              \cap ret.ast[f + 1].accessed_non_locals)
                = ret.ast[f + 1].local_count

\* || x has been parsed: the function assigns nothing, captures x and has
\* no locals.
C24_Witness ==
    /\ Parsed
    /\ input.tokens = Function0(<<IdTok("x")>>)
    /\ \E f \in Functions(ret.ast) :
           /\ FrameOf(ret, f).ids_assigned_in_scope = {}
           /\ ret.ast[f + 1].accessed_non_locals = {"x"}
           /\ ret.ast[f + 1].local_count = 0

\* C25: the local_count of the MainBlock node and of every Function node is
\* the size of ids_assigned_in_scope \ accessed_non_locals of its frame as
\* the last expression of the body left it, every expression finished; an
\* identifier read as a non-local and assigned later in the frame is in both
\* sets and is not counted.
C25_CountIsSetDifference ==
    Parsed =>
        /\ ret.ast[ret.entry_point + 1].local_count
               = Cardinality(MainFrame(ret).ids_assigned_in_scope
                                 \ MainFrame(ret).accessed_non_locals)
        /\ \A f \in Functions(ret.ast) :
               /\ FrameOf(ret, f).expression_id_accesses = [id \in {} |-> 0]
               /\ ret.ast[f + 1].accessed_non_locals = FrameOf(ret, f).accessed_non_locals
               /\ ret.ast[f + 1].local_count
                      = Cardinality(FrameOf(ret, f).ids_assigned_in_scope
                                        \ FrameOf(ret, f).accessed_non_locals)
               /\ \A id \in FrameOf(ret, f).ids_assigned_in_scope
                                \cap FrameOf(ret, f).accessed_non_locals :
                      ret.ast[f + 1].local_count
                          < Cardinality(FrameOf(ret, f).ids_assigned_in_scope)

\* x on one line and x = 1 on the next have been parsed: x is assigned and
\* an accessed non-local of the main block, whose local_count is 0.
C25_Witness ==
    /\ Parsed
    /\ input.tokens = <<IdTok("x"), Tok("NewLine")>> \o Assigned("x", "Assign", <<NumberTok("1")>>)
    /\ MainFrame(ret).ids_assigned_in_scope = {"x"}
    /\ MainFrame(ret).accessed_non_locals = {"x"}
    /\ ret.ast[ret.entry_point + 1].local_count = 0

\* Every node under a node of a parsed tree, the node included.
RECURSIVE Under(_, _)
Under(ast, index) ==
    {index} \cup UNION {Under(ast, c) : c \in Children(ast[index + 1])}

\* The function nesting depth of a node: the number of the functions whose
\* body holds it.
FunctionDepth(ast, index) ==
    Cardinality({f \in Functions(ast) : index \in Under(ast, ast[f + 1].body)})

\* C30: the frame stack is balanced. Whenever parse_line finishes an
\* expression and whenever parse_function has popped the frame of a function,
\* the stack holds one frame more than there are functions around the node,
\* the top frame is the main block's exactly when the depth is 1, a popped
\* frame is never the main block's, no parse ends with MissingScope and the
\* stack is empty when parse succeeds.
C30_FrameStackBalanced ==
    Parses =>
        /\ ret.error # "MissingScope"
        /\ \A i \in DOMAIN ret.log :
               /\ ret.log[i].depth >= 1
               /\ ret.log[i].after.top_level <=> ret.log[i].depth = 1
               /\ ret.log[i].event = "function" => ~ret.log[i].before.top_level
        /\ ret.ok =>
               /\ ret.frame_stack = <<>>
               /\ \A i \in DOMAIN ret.log :
                      ret.log[i].depth = 1 + FunctionDepth(ret.ast, ret.log[i].node)

\* A function in the body of a function has been parsed: its expression was
\* finished with three frames on the stack, and the stack is empty at the
\* end.
C30_Witness ==
    /\ Parsed
    /\ ret.frame_stack = <<>>
    /\ \E i \in DOMAIN ret.log :
           /\ ret.log[i].event = "finish"
           /\ ret.log[i].depth = 3
           /\ FunctionDepth(ret.ast, ret.log[i].node) = 2
    /\ \E i \in DOMAIN ret.log :
           /\ ret.log[i].event = "function"
           /\ ret.log[i].depth = 1

\* parse_list from the reset point on with no comprehension tried: the
\* entries and the end of the list.
ParsedDirectly(p, primary_expression) ==
    parse_list_end(parse_list_entries(p, <<>>), primary_expression)

\* C23: when the list that parse_list tried as a comprehension is not one,
\* parsing the entries from the rewound lexer and AST leaves the AST and the
\* constant pool that parsing them from the reset point leaves with nothing
\* tried: the same nodes at the same indices, the same constants, the same
\* result.
C23_RewoundParsesAsDirect ==
    Parses =>
        \A i \in DOMAIN ret.lists :
            LET again == ParsedDirectly(ret.lists[i].rewound,
                                        ret.lists[i].primary_expression)
                direct == ParsedDirectly(ret.lists[i].at_reset_point,
                                         ret.lists[i].primary_expression)
            IN /\ again.ok = direct.ok
               /\ again.ok =>
                      /\ again.v = direct.v
                      /\ again.p.ast = direct.p.ast
                      /\ again.p.constants = direct.p.constants
                      /\ again.p.pos = direct.p.pos


\* A list has been parsed whose entries were parsed again after the rewind:
\* the expression tried first left its constants in the pool and none of its
\* nodes in the AST, and the nodes of the list parsed again are the ones the
\* parse returns.
C23_Witness ==
    /\ Parsed
    /\ \E i \in DOMAIN ret.lists :
           LET again == ParsedDirectly(ret.lists[i].rewound,
                                       ret.lists[i].primary_expression)
           IN /\ ret.lists[i].rewound.constants # ret.lists[i].at_reset_point.constants
              /\ ret.lists[i].rewound.ast = ret.lists[i].at_reset_point.ast
              /\ again.ok
              /\ Len(again.p.ast) > Len(ret.lists[i].rewound.ast) + 1
              /\ Len(again.p.ast) <= Len(ret.ast)
              /\ again.p.ast = SubSeq(ret.ast, 1, Len(again.p.ast))
              /\ again.p.constants = ret.constants

====
